---- MODULE Spec2Model ----
\* A model of the Scriptrix writing assistant: the App component's state
\* (Document, analysis, chat), the EditorPanel's AI-action popup, and the AI
\* gateway (geminiService).  JavaScript strings are sequences of tokens; a
\* token is one character, or one fixed message taken as a unit.
EXTENDS Integers, Sequences, FiniteSets, TLC

\* ---------------------------------------------------------------- bounds
MaxAnalysisCalls == 2
MaxQuickCalls == 2
MaxChatSends == 2
MaxVersion == 1
MaxAutocompleteCalls == 2
MaxApplies == 1
TickMs == 1000

\* ------------------------------------------------------ program constants
DebounceDelay == 2000
AnalysisMinLen == 50
AnalyzeMinChars == 10
AutocompleteMinChars == 50
AutocompleteWindow == 200
AutocompleteIdleMin == 20
ContextLimit == 2000

\* ---------------------------------------------------------------- strings
Rep(c, n) == [i \in 1..n |-> c]

IsSpace(c) == c \in {" ", "\n"}

RECURSIVE TrimStart(_)
TrimStart(s) ==
  IF s # <<>> /\ IsSpace(Head(s)) THEN TrimStart(Tail(s)) ELSE s

RECURSIVE TrimEnd(_)
TrimEnd(s) ==
  IF s # <<>> /\ IsSpace(s[Len(s)]) THEN TrimEnd(SubSeq(s, 1, Len(s) - 1)) ELSE s

\* String.prototype.trim
Trim(s) == TrimEnd(TrimStart(s))

\* s.slice(-n)
SliceLast(s, n) == IF Len(s) <= n THEN s ELSE SubSeq(s, Len(s) - n + 1, Len(s))

\* s.substring(0, n)
Substring0(s, n) == IF Len(s) <= n THEN s ELSE SubSeq(s, 1, n)

\* needle occurs in hay at position i (1-based)
OccursAt(hay, needle, i) ==
  /\ i >= 1
  /\ i + Len(needle) - 1 <= Len(hay)
  /\ SubSeq(hay, i, i + Len(needle) - 1) = needle

\* String.prototype.includes
Includes(hay, needle) == \E i \in 1..(Len(hay) + 1) : OccursAt(hay, needle, i)

\* position of the first occurrence, 0 when there is none
IndexOf(hay, needle) ==
  IF Includes(hay, needle)
  THEN CHOOSE i \in 1..(Len(hay) + 1) :
         /\ OccursAt(hay, needle, i)
         /\ \A j \in 1..(i - 1) : ~OccursAt(hay, needle, j)
  ELSE 0

\* the replacement text of String.prototype.replace: $$ is a dollar sign,
\* $& the matched text, $` the text before the match and $' the text after
\* it; every other character stands for itself
RECURSIVE GetSubstitution(_, _, _, _)
GetSubstitution(rep, before, matched, after) ==
  IF rep = <<>> THEN <<>>
  ELSE IF Len(rep) >= 2 /\ rep[1] = "$" /\ rep[2] \in {"$", "&", "`", "'"}
  THEN (CASE rep[2] = "$" -> <<"$">>
          [] rep[2] = "&" -> matched
          [] rep[2] = "`" -> before
          [] rep[2] = "'" -> after)
       \o GetSubstitution(SubSeq(rep, 3, Len(rep)), before, matched, after)
  ELSE <<Head(rep)>> \o GetSubstitution(Tail(rep), before, matched, after)

\* String.prototype.replace with a string pattern: the first occurrence only
ReplaceFirst(hay, needle, rep) ==
  LET i == IndexOf(hay, needle)
      before == SubSeq(hay, 1, i - 1)
      after == SubSeq(hay, i + Len(needle), Len(hay))
  IN  IF i = 0 THEN hay
      ELSE before \o GetSubstitution(rep, before, needle, after) \o after

\* s.replace(/c/g, rep) for a one-character pattern c
RECURSIVE ReplaceAll(_, _, _)
ReplaceAll(s, c, rep) ==
  IF s = <<>> THEN <<>>
  ELSE (IF Head(s) = c THEN rep ELSE <<Head(s)>>) \o ReplaceAll(Tail(s), c, rep)

\* ------------------------------------------------------------- stripHtml
Letters == {"a", "b", "c", "g", "i", "l", "m", "p", "r", "t", "u", "x", "y"}

TagOpeners == Letters \cup {"/"}

\* position j opens a tag: "<" followed by a letter or "/"
TagStartAt(h, j) == h[j] = "<" /\ j < Len(h) /\ h[j + 1] \in TagOpeners

\* position i lies inside a tag: a tag opens at or before i and no ">"
\* closes it before i (a tag left open swallows the rest)
InTag(h, i) ==
  \E j \in 1..i :
    /\ TagStartAt(h, j)
    /\ \A k \in j..(i - 1) : h[k] # ">"

Entities == {<<"&", "a", "m", "p", ";">>, <<"&", "l", "t", ";">>,
             <<"&", "g", "t", ";">>}

EntityChar(e) == IF e[2] = "a" THEN "&" ELSE IF e[2] = "l" THEN "<" ELSE ">"

\* position i is the 2nd..last character of an entity (an entity has at
\* most 5 characters, so it starts at most 4 positions before i)
InEntityTail(h, i) ==
  \E e \in Entities : \E k \in (i - 4)..(i - 1) : OccursAt(h, e, k) /\ i < k + Len(e)

\* the character that position i contributes to the text content
TextCharAt(h, i) ==
  IF \E e \in Entities : OccursAt(h, e, i)
  THEN EntityChar(CHOOSE e \in Entities : OccursAt(h, e, i))
  ELSE h[i]

\* the text content of the markup: tags dropped, entities decoded
stripHtml(html) ==
  LET positions == [i \in 1..Len(html) |-> i]
      IsText(i) == ~InTag(html, i) /\ ~InEntityTail(html, i)
      kept == SelectSeq(positions, IsText)
  IN  [k \in 1..Len(kept) |-> TextCharAt(html, kept[k])]

Br == <<"<", "b", "r", ">">>

\* HTMLElement.innerText of the view: the text content, with a line break
\* for each <br>
innerText(html) ==
  LET positions == [i \in 1..Len(html) |-> i]
      IsBr(i) == OccursAt(html, Br, i)
      IsShown(i) == IsBr(i) \/ (~InTag(html, i) /\ ~InEntityTail(html, i))
      kept == SelectSeq(positions, IsShown)
  IN  [k \in 1..Len(kept) |->
         IF IsBr(kept[k]) THEN "\n" ELSE TextCharAt(html, kept[k])]

\* ------------------------------------------------------------- documents
BoldOpen == <<"<", "b", ">">>
BoldClose == <<"<", "/", "b", ">">>

\* view contents the user can type
DocPlain49 == <<"x", " ">> \o Rep("a", 47)
DocPlain50 == <<"x", " ">> \o Rep("a", 48)
DocPlain51 == <<"x", " ">> \o Rep("a", 49)
DocMarkup == <<"x", " ">> \o BoldOpen \o Rep("a", 48) \o BoldClose

TypedDocs == {<<>>, DocPlain49, DocPlain50, DocPlain51, DocMarkup}

\* drafts that local storage can hold when the application loads
StoredDrafts == {<<>>, DocPlain51}

\* drafts with reserved characters, markup and line feeds in their text
DocEntity == <<"a", "&", "a", "m", "p", ";", "&", "l", "t", ";", "b">>
DocLineFeed == <<"x", "\n", "y">>
DocBreak == <<"x", "<", "b", "r", ">", "<", "b", ">", "y", "<", "/", "b", ">">>
FileDrafts == {DocEntity, DocLineFeed, DocBreak}

\* ------------------------------------------------------- analysis results
\* A field that a JavaScript object lacks is a field the record lacks.
Truthy(obj, f) == f \in DOMAIN obj /\ obj[f] # <<>>

sFix == [id |-> "s1", type |-> "correction", text |-> "Replace x by y",
         originalText |-> <<"x">>, replacement |-> <<"y">>]
sEmptyRep == [id |-> "s2", type |-> "improvement", text |-> "Drop x",
              originalText |-> <<"x">>, replacement |-> <<>>]
sNoRep == [id |-> "s3", type |-> "tone", text |-> "Reconsider x",
           originalText |-> <<"x">>]
sErr == [id |-> "err", type |-> "improvement",
         text |-> "Analysis unavailable. Please try again.",
         originalText |-> <<>>, replacement |-> <<>>]

\* the result for inputs under AnalyzeMinChars characters
ZeroResult ==
  [clarityScore |-> 0, academicToneScore |-> 0, grammarRating |-> "Needs Work",
   readabilityLevel |-> "N/A", suggestions |-> <<>>,
   documentInsights |-> [estimatedReadingTime |-> "0 min",
                         vocabularyDiversityScore |-> 0,
                         complexSentenceCount |-> 0,
                         transitionWordsCount |-> 0]]

\* the result returned from the catch block
DegradedResult ==
  [clarityScore |-> 0, academicToneScore |-> 0, grammarRating |-> "Needs Work",
   readabilityLevel |-> "Error", suggestions |-> <<sErr>>,
   documentInsights |-> [estimatedReadingTime |-> "-",
                         vocabularyDiversityScore |-> 0,
                         complexSentenceCount |-> 0,
                         transitionWordsCount |-> 0]]

\* objects the provider's JSON can denote
GoodResult ==
  [clarityScore |-> 80, academicToneScore |-> 100, grammarRating |-> "Good",
   readabilityLevel |-> "College Level", suggestions |-> <<sFix, sEmptyRep, sNoRep>>,
   documentInsights |-> [estimatedReadingTime |-> "1 min",
                         vocabularyDiversityScore |-> 40,
                         complexSentenceCount |-> 1,
                         transitionWordsCount |-> 2]]
PlainResult ==
  [clarityScore |-> 55, academicToneScore |-> 0, grammarRating |-> "Poor",
   readabilityLevel |-> "High School", suggestions |-> <<sFix>>,
   documentInsights |-> [estimatedReadingTime |-> "2 min",
                         vocabularyDiversityScore |-> 10,
                         complexSentenceCount |-> 0,
                         transitionWordsCount |-> 0]]
\* the response schema sets no bounds on its integers
BigScoreResult == [GoodResult EXCEPT !.clarityScore = 150, !.suggestions = <<>>]
\* the response schema marks no property as required
BareResult == [clarityScore |-> 70, academicToneScore |-> 60]

JsonGood == <<"{json:good}">>
JsonPlain == <<"{json:plain}">>
JsonBigScore == <<"{json:clarityScore=150}">>
JsonBare == <<"{json:scores-only}">>
NotJson == <<"I cannot analyze this.">>

\* ------------------------------------------------------------ the provider
\* What one call to the generative-language API can do: reject, answer
\* without text, or answer with a text.
Thrown == [threw |-> TRUE]
Ret(v) == [threw |-> FALSE, value |-> v]

TextBodies == {<<"\"", "y", "\"">>}
AnalyzeBodies == {JsonGood, JsonPlain, JsonBigScore, JsonBare, NotJson}

Failures == {[kind |-> "throw"], [kind |-> "empty"]}
TextOutcomes == Failures \cup {[kind |-> "text", body |-> b] : b \in TextBodies}
AnalyzeOutcomes == Failures \cup {[kind |-> "text", body |-> b] : b \in AnalyzeBodies}

\* ai.models.generateContent / chat.sendMessage: the response's .text
generateContent(o) ==
  IF o.kind = "throw" THEN Thrown
  ELSE IF o.kind = "empty" THEN Ret(<<>>)
  ELSE Ret(o.body)

\* JSON.parse on the texts above
JSONparse(s) ==
  IF s = JsonGood THEN Ret(GoodResult)
  ELSE IF s = JsonPlain THEN Ret(PlainResult)
  ELSE IF s = JsonBigScore THEN Ret(BigScoreResult)
  ELSE IF s = JsonBare THEN Ret(BareResult)
  ELSE Thrown

\* try { body } catch { return fallback }
TryCatch(body, fallback) == IF body.threw THEN Ret(fallback) ELSE body

WithCalled(r, c) ==
  IF r.threw THEN [threw |-> TRUE, called |-> c]
  ELSE [threw |-> FALSE, called |-> c, value |-> r.value]

\* --------------------------------------------------------- the AI gateway
analyzeText_EmptyOnly(text, o) ==
  IF text = <<>>
  THEN WithCalled(Ret(ZeroResult), FALSE)
  ELSE LET response == generateContent(o)
           body == IF response.threw THEN Thrown
                   ELSE IF response.value = <<>> THEN Thrown
                   ELSE JSONparse(response.value)
       IN  WithCalled(TryCatch(body, DegradedResult), TRUE)

analyzeText_NoCatch(text, o) ==
  IF text = <<>> \/ Len(Trim(text)) < AnalyzeMinChars
  THEN WithCalled(Ret(ZeroResult), FALSE)
  ELSE LET response == generateContent(o)
           body == IF response.threw THEN Thrown
                   ELSE IF response.value = <<>> THEN Thrown
                   ELSE JSONparse(response.value)
       IN  WithCalled(body, TRUE)

analyzeText(text, o) ==
  IF text = <<>> \/ Len(Trim(text)) < AnalyzeMinChars
  THEN WithCalled(Ret(ZeroResult), FALSE)
  ELSE LET response == generateContent(o)
           body == IF response.threw THEN Thrown
                   ELSE IF response.value = <<>> THEN Thrown
                   ELSE JSONparse(response.value)
       IN  WithCalled(TryCatch(body, DegradedResult), TRUE)

ChatNoText == <<"I apologize, I couldn't generate a response.">>
ChatError == <<"Sorry, I'm having trouble connecting to the AI service right now.">>

\* what the chat request carries: the prior turns and the truncated context
ChatRequest(history, newMessage, currentContext) ==
  [history |-> [i \in 1..Len(history) |->
                  [role |-> history[i].role, parts |-> history[i].content]],
   context |-> Substring0(currentContext, ContextLimit),
   message |-> newMessage]

getChatResponse_NoCatch(history, newMessage, currentContext, o) ==
  LET result == generateContent(o)
      body == IF result.threw THEN Thrown
              ELSE IF result.value # <<>> THEN Ret(result.value)
              ELSE Ret(ChatNoText)
  IN  WithCalled(body, TRUE)

getChatResponse(history, newMessage, currentContext, o) ==
  LET result == generateContent(o)
      body == IF result.threw THEN Thrown
              ELSE IF result.value # <<>> THEN Ret(result.value)
              ELSE Ret(ChatNoText)
  IN  WithCalled(TryCatch(body, ChatError), TRUE)

getAutocompleteSuggestion_IdleMin(textBeforeCursor, o) ==
  IF textBeforeCursor = <<>> \/ Len(textBeforeCursor) <= AutocompleteIdleMin
  THEN WithCalled(Ret(<<>>), FALSE)
  ELSE LET response == generateContent(o)
           body == IF response.threw THEN Thrown
                   ELSE Ret(Trim(response.value))
       IN  WithCalled(TryCatch(body, <<>>), TRUE)

getAutocompleteSuggestion(textBeforeCursor, o) ==
  IF textBeforeCursor = <<>> \/ Len(textBeforeCursor) < AutocompleteMinChars
  THEN WithCalled(Ret(<<>>), FALSE)
  ELSE LET response == generateContent(o)
           body == IF response.threw THEN Thrown
                   ELSE Ret(Trim(response.value))
       IN  WithCalled(TryCatch(body, <<>>), TRUE)

QuickNoText == <<"Could not process selection.">>
QuickError == <<"Error processing request.">>
DefaultPrompt == <<"Improve the following text:">>

\* the instruction template of an action kind
QuickPrompt(action, customPrompt) ==
  CASE action = "Paraphrase Selection" ->
         <<"Rewrite the following text to be more academic and professional, maintaining the original meaning:">>
    [] action = "Expand Ideas" ->
         <<"Expand on the following text with 2-3 explanatory sentences to deepen the analysis:">>
    [] action = "Summarize" ->
         <<"Summarize the following text concisely, retaining key academic points:">>
    [] action = "Citation Helper" ->
         <<"Identify where citations are likely needed in the following text and suggest the type of source (e.g., 'Requires empirical study citation'):">>
    [] action = "Check Plagiarism Risk" ->
         <<"Analyze the following text for potential plagiarism risks (e.g., too generic, common phrasing without attribution) and suggest how to make it more original:">>
    [] action = "Custom" ->
         IF customPrompt # <<>> THEN customPrompt ELSE DefaultPrompt
    [] OTHER -> DefaultPrompt

\* `${prompt}\n\n"${selection}"`
QuickContents(action, selection, customPrompt) ==
  QuickPrompt(action, customPrompt) \o <<"\n", "\n", "\"">> \o selection \o <<"\"">>

performQuickAction(action, selection, customPrompt, o) ==
  LET response == generateContent(o)
      body == IF response.threw THEN Thrown
              ELSE IF response.value # <<>> THEN Ret(response.value)
              ELSE Ret(QuickNoText)
  IN  WithCalled(TryCatch(body, QuickError), TRUE)


\* ------------------------------------------------------------------ state
VARIABLES
  mounted,        \* the first render's effects have run
  storage,        \* local storage under 'acade_draft_html': <<>> or <<item>>
  text,           \* App: the Document
  docVersion,     \* App: the key of the mounted EditorPanel
  analysis,       \* App: the stored AnalysisResult, or Null
  analyzing,      \* App: the loading flag of the dashboard
  chatHistory,    \* App: the ChatMessage list
  chatLoading,    \* App
  lastRange,      \* App: the range captured for the chat bridge
  debouncedText,  \* useDebounce: the debounced Document
  timerArmed,     \* useDebounce: a timeout is pending
  sinceChange,    \* milliseconds since the pending timeout was set
  editorHtml,     \* EditorPanel: innerHTML of the editable view
  selection,      \* window.getSelection(): a range, or NoRange
  aiPopup,        \* EditorPanel: the AI-action popup
  analysisCalls,  \* analyzeText calls in flight
  quickCalls,     \* performQuickAction calls in flight
  chatCalls,      \* getChatResponse calls in flight
  issued,         \* how many calls of each kind were issued so far
  event,          \* the handler that ran last and the alert it raised
  gw,             \* a single gateway call, for the gateway specification
  suggestion,     \* EditorPanel: the autocomplete suggestion on offer
  isTyping,       \* EditorPanel
  typingPending,  \* some setTimeout(() => setIsTyping(false), 500) is pending
  acTimer,        \* EditorPanel: the pending idle timeout and what it closed over
  acCalls,        \* getAutocompleteSuggestion calls in flight
  download,       \* the file the last export handed to the browser
  analysisOf      \* <<t>>: the stored AnalysisResult is the analysis of the text t

vars == <<mounted, storage, text, docVersion, analysis, analyzing, chatHistory,
          chatLoading, lastRange, debouncedText, timerArmed, sinceChange,
          editorHtml, selection, aiPopup, analysisCalls, quickCalls, chatCalls,
          issued, event, gw, suggestion, isTyping, typingPending, acTimer,
          acCalls, download, analysisOf>>

appVars == <<mounted, storage, text, docVersion, analysis, analyzing, chatHistory,
             chatLoading, lastRange, debouncedText, timerArmed, sinceChange,
             editorHtml, selection, aiPopup, analysisCalls, quickCalls, chatCalls,
             issued, event, suggestion, isTyping, typingPending, acTimer,
             acCalls, download, analysisOf>>

\* the state that only the autocomplete, the export and the analysis write
aidVars == <<suggestion, isTyping, typingPending, acCalls, download, analysisOf>>

Null == [null |-> TRUE]
NoRange == [none |-> TRUE]
NoTimer == [none |-> TRUE]
NoFile == [none |-> TRUE]
NoAlert == "none"

NoteNoSelection_Absent == "none"

AlertSelectFirst == "Please select some text first."
AlertNoMatch == "Could not find exact text match. It may have been edited."
AlertSelectLocation ==
  "Please click or select a location in the editor first so I know where to apply the change."
\* the line MessageItem shows, with Approve disabled, when hasSelection is false
NoteNoSelection == "No text selected in editor."

Ev(op, alert) == [op |-> op, alert |-> alert]

QUICK_ACTIONS == {"Custom", "Paraphrase Selection", "Expand Ideas", "Summarize",
                  "Citation Helper"}

\* useState<AiPopupState> initial value, and the value closePopup sets
ClosedPopup == [isOpen |-> FALSE, mode |-> "prompt", actionId |-> "",
                prompt |-> <<>>, result |-> <<>>, range |-> NoRange]

\* what the user can select in the view, as <<from, to>> offsets: a caret,
\* the word "x", the blank after it
Selectable == {<<0, 0>>, <<0, 1>>, <<1, 2>>}
\* prompts the user can type into the popup
Prompts == {<<>>, <<" ">>, <<"Shorten">>}
\* messages the user can send in the chat
ChatInputs == {<<"Improve this">>, <<"Check grammar">>}

\* ---------------------------------------------------------------- effects
\* Range.toString() / Selection.toString() against the live view
RangeText(html, r) ==
  IF r = NoRange THEN <<>>
  ELSE SubSeq(html, r.from + 1, IF r.to <= Len(html) THEN r.to ELSE Len(html))

SyncView_NeverOverwrites(view, t) == view

\* EditorPanel's effect on [text]: an external Document overwrites the view
\* only when the view is empty; an empty Document clears the view
SyncView(view, t) ==
  IF t # <<>> /\ view # t /\ view \in {<<>>, <<"<", "b", "r", ">">>} THEN t
  ELSE IF t = <<>> THEN <<>>
  ELSE view

AnalysisDue_RawLength(debounced) == Len(debounced) > AnalysisMinLen

\* runAnalysis: whether the effect on [debouncedText] calls analyzeText
AnalysisDue(debounced) == Len(stripHtml(debounced)) > AnalysisMinLen

NewAnalysisCall(debounced) ==
  [id |-> issued.analysis + 1, text |-> stripHtml(debounced)]

SetText_NoPersist(t) ==
  /\ text' = t
  /\ IF t # text
     THEN /\ timerArmed' = TRUE
          /\ sinceChange' = 0
          /\ UNCHANGED storage
     ELSE UNCHANGED <<storage, timerArmed, sinceChange>>

\* setText(t) and the App effects that depend on [text]: persistence and
\* the debounce timeout; a setText to the same value causes no render
SetText(t) ==
  /\ text' = t
  /\ IF t # text
     THEN /\ storage' = <<t>>
          /\ timerArmed' = TRUE
          /\ sinceChange' = 0
     ELSE UNCHANGED <<storage, timerArmed, sinceChange>>

\* the idle timeout of the autocomplete effect, with the isTyping and
\* aiPopup.isOpen of the render that set it
IdleTimer(typing, open) == [isTyping |-> typing, isOpen |-> open]

\* EditorPanel's effect on [text, isTyping, aiPopup.isOpen]: when one of them
\* changed in the step, the cleanup clears the pending idle timeout and a new
\* one is set, closing over the new render's isTyping and aiPopup.isOpen
AcEffect ==
  acTimer' = IF \/ text' # text
                \/ isTyping' # isTyping
                \/ aiPopup'.isOpen # aiPopup.isOpen
             THEN IdleTimer(isTyping', aiPopup'.isOpen)
             ELSE acTimer

\* key={docVersion} changed: a fresh EditorPanel is mounted on the Document t;
\* the timeouts of the old one no longer reach a mounted component
Remount(t) ==
  /\ aiPopup' = ClosedPopup
  /\ editorHtml' = SyncView(<<>>, t)
  /\ selection' = NoRange
  /\ suggestion' = <<>>
  /\ isTyping' = FALSE
  /\ typingPending' = FALSE
  /\ acTimer' = IdleTimer(FALSE, FALSE)

\* the state after construction, local storage holding nothing or one of drafts
InitWith(drafts) ==
  /\ mounted = FALSE
  /\ storage \in {<<>>} \cup {<<d>> : d \in drafts}
  /\ text = (IF storage = <<>> THEN <<>> ELSE storage[1])
  /\ docVersion = 0
  /\ analysis = Null
  /\ analyzing = FALSE
  /\ chatHistory = <<>>
  /\ chatLoading = FALSE
  /\ lastRange = NoRange
  /\ debouncedText = text
  /\ timerArmed = FALSE
  /\ sinceChange = 0
  /\ editorHtml = <<>>
  /\ selection = NoRange
  /\ aiPopup = ClosedPopup
  /\ analysisCalls = {}
  /\ quickCalls = {}
  /\ chatCalls = {}
  /\ issued = [analysis |-> 0, quick |-> 0, chat |-> 0, autocomplete |-> 0,
               apply |-> 0]
  /\ event = Ev("init", NoAlert)
  /\ suggestion = <<>>
  /\ isTyping = FALSE
  /\ typingPending = FALSE
  /\ acTimer = NoTimer
  /\ acCalls = {}
  /\ download = NoFile
  /\ analysisOf = <<>>

InitApp == InitWith(StoredDrafts)

Init == InitApp /\ gw = [op |-> "none"]

\* The effects of the first render: persistence, the debounce timeout, the
\* analysis of the initial debouncedText, and the view's sync with the Document.
Mount ==
  /\ ~mounted
  /\ mounted' = TRUE
  /\ storage' = <<text>>
  /\ timerArmed' = TRUE
  /\ sinceChange' = 0
  /\ editorHtml' = SyncView(editorHtml, text)
  /\ IF AnalysisDue(debouncedText)
     THEN /\ analyzing' = TRUE
          /\ analysisCalls' = analysisCalls \cup {NewAnalysisCall(debouncedText)}
          /\ issued' = [issued EXCEPT !.analysis = @ + 1]
     ELSE UNCHANGED <<analyzing, analysisCalls, issued>>
  /\ acTimer' = IdleTimer(FALSE, FALSE)
  /\ event' = Ev("mount", NoAlert)
  /\ UNCHANGED <<text, docVersion, analysis, chatHistory, chatLoading, lastRange,
                 debouncedText, selection, aiPopup, quickCalls, chatCalls, gw>>
  /\ UNCHANGED aidVars

\* ------------------------------------------------------- the debounce loop
\* TickMs milliseconds pass while the timeout is pending.
Tick ==
  /\ mounted
  /\ timerArmed
  /\ sinceChange < DebounceDelay
  /\ sinceChange' = sinceChange + TickMs
  /\ event' = Ev("tick", NoAlert)
  /\ UNCHANGED <<mounted, storage, text, docVersion, analysis, analyzing,
                 chatHistory, chatLoading, lastRange, debouncedText, timerArmed,
                 editorHtml, selection, aiPopup, analysisCalls, quickCalls,
                 chatCalls, issued, gw>>
  /\ UNCHANGED <<aidVars, acTimer>>

\* The timeout fires: setDebouncedValue(value), then runAnalysis when the
\* debounced value changed.
DebounceFire ==
  /\ mounted
  /\ timerArmed
  /\ sinceChange >= DebounceDelay
  /\ timerArmed' = FALSE
  /\ debouncedText' = text
  /\ IF text # debouncedText /\ AnalysisDue(text)
     THEN /\ issued.analysis < MaxAnalysisCalls
          /\ analyzing' = TRUE
          /\ analysisCalls' = analysisCalls \cup {NewAnalysisCall(text)}
          /\ issued' = [issued EXCEPT !.analysis = @ + 1]
          /\ event' = [op |-> "debounce", alert |-> NoAlert, called |-> TRUE]
     ELSE /\ UNCHANGED <<analyzing, analysisCalls, issued>>
          /\ event' = [op |-> "debounce", alert |-> NoAlert, called |-> FALSE]
  /\ UNCHANGED <<mounted, storage, text, docVersion, analysis, chatHistory,
                 chatLoading, lastRange, sinceChange, editorHtml, selection,
                 aiPopup, quickCalls, chatCalls, gw>>
  /\ UNCHANGED <<aidVars, acTimer>>

\* as AnalysisResolve, but the response of a superseded call is dropped
AnalysisResolve_LatestOnly ==
  /\ mounted
  /\ \E c \in analysisCalls, o \in AnalyzeOutcomes :
       LET r == analyzeText(c.text, o) IN
       /\ analysisCalls' = analysisCalls \ {c}
       /\ IF r.threw \/ c.id < issued.analysis
          THEN UNCHANGED <<analysis, analyzing, analysisOf>>
          ELSE /\ analysis' = r.value
               /\ analyzing' = FALSE
               /\ analysisOf' = <<c.text>>
       /\ event' = [op |-> "analysisResolved", alert |-> NoAlert, id |-> c.id,
                    ret |-> r]
  /\ UNCHANGED <<mounted, storage, text, docVersion, chatHistory, chatLoading,
                 lastRange, debouncedText, timerArmed, sinceChange, editorHtml,
                 selection, aiPopup, quickCalls, chatCalls, issued, gw>>
  /\ UNCHANGED <<suggestion, isTyping, typingPending, acCalls, download, acTimer>>

\* await analyzeText(plainText) resolves: setAnalysis(result); setAnalyzing(false).
\* A rejection would leave runAnalysis at the await.
AnalysisResolve ==
  /\ mounted
  /\ \E c \in analysisCalls, o \in AnalyzeOutcomes :
       LET r == analyzeText(c.text, o) IN
       /\ analysisCalls' = analysisCalls \ {c}
       /\ IF r.threw
          THEN UNCHANGED <<analysis, analyzing, analysisOf>>
          ELSE /\ analysis' = r.value
               /\ analyzing' = FALSE
               /\ analysisOf' = <<c.text>>
       /\ event' = [op |-> "analysisResolved", alert |-> NoAlert, id |-> c.id,
                    ret |-> r]
  /\ UNCHANGED <<mounted, storage, text, docVersion, chatHistory, chatLoading,
                 lastRange, debouncedText, timerArmed, sinceChange, editorHtml,
                 selection, aiPopup, quickCalls, chatCalls, issued, gw>>
  /\ UNCHANGED <<suggestion, isTyping, typingPending, acCalls, download, acTimer>>


\* ------------------------------------------------------------- the editor
\* handleInput's own state: setIsTyping(true), setSuggestion(''), and the
\* 500 ms timeout that will set isTyping back
TypingStarts ==
  /\ isTyping' = TRUE
  /\ suggestion' = <<>>
  /\ typingPending' = TRUE

\* a caret at the end of the view
CaretAtEnd(html) == [inst |-> docVersion, from |-> Len(html), to |-> Len(html)]

\* The user types: the view becomes newHtml and handleInput stores it.  The
\* caret is left behind what was typed, and the keyup listener hands it to
\* the App.
handleInput ==
  /\ mounted
  /\ \E newHtml \in TypedDocs :
       /\ newHtml # editorHtml
       /\ editorHtml' = newHtml
       /\ SetText(newHtml)
  /\ selection' = CaretAtEnd(editorHtml')
  /\ lastRange' = selection'
  /\ TypingStarts
  /\ event' = Ev("handleInput", NoAlert)
  /\ UNCHANGED <<mounted, docVersion, analysis, analyzing, chatHistory,
                 chatLoading, debouncedText, aiPopup,
                 analysisCalls, quickCalls, chatCalls, issued, gw>>
  /\ UNCHANGED <<acCalls, download, analysisOf>>
  /\ AcEffect

\* The user selects from..to in the view (from = to is a caret); the mouseup
\* listener hands a clone of the range to the App.
Select ==
  /\ mounted
  /\ \E ft \in Selectable :
       /\ ft[2] <= Len(editorHtml)
       /\ \A i \in (ft[1] + 1)..ft[2] : ~InTag(editorHtml, i)
       /\ selection' = [inst |-> docVersion, from |-> ft[1], to |-> ft[2]]
       /\ lastRange' = selection'
  /\ event' = Ev("select", NoAlert)
  /\ UNCHANGED <<mounted, storage, text, docVersion, analysis, analyzing,
                 chatHistory, chatLoading, debouncedText, timerArmed, sinceChange,
                 editorHtml, aiPopup, analysisCalls, quickCalls, chatCalls,
                 issued, gw>>
  /\ UNCHANGED <<aidVars, acTimer>>

\* handleQuickAction's test: no selection, no range in it, or a blank text
SelectionMissing_NoTrim(sel, html) ==
  sel = NoRange \/ Len(RangeText(html, sel)) = 0

SelectionMissing_RangeOnly(sel, html) == sel = NoRange

SelectionMissing(sel, html) ==
  sel = NoRange \/ Len(Trim(RangeText(html, sel))) = 0

NewQuickCall(actionId, selectionText, customPrompt, range) ==
  [id |-> issued.quick + 1, inst |-> docVersion, actionId |-> actionId,
   selectionText |-> selectionText, customPrompt |-> customPrompt, range |-> range]

\* A toolbar quick-action button is clicked.
handleQuickAction ==
  /\ mounted
  /\ \E actionId \in QUICK_ACTIONS :
       IF SelectionMissing(selection, editorHtml)
       THEN /\ event' = Ev("handleQuickAction", AlertSelectFirst)
            /\ UNCHANGED <<aiPopup, quickCalls, issued>>
       ELSE /\ event' = [op |-> "handleQuickAction", alert |-> NoAlert,
                         actionId |-> actionId]
            /\ IF actionId = "Custom"
               THEN /\ aiPopup' = [isOpen |-> TRUE, mode |-> "prompt",
                                   actionId |-> actionId, prompt |-> <<>>,
                                   result |-> <<>>, range |-> selection]
                    /\ UNCHANGED <<quickCalls, issued>>
               ELSE /\ issued.quick < MaxQuickCalls
                    /\ aiPopup' = [isOpen |-> TRUE, mode |-> "processing",
                                   actionId |-> actionId, prompt |-> <<>>,
                                   result |-> <<>>, range |-> selection]
                    /\ quickCalls' = quickCalls \cup
                         {NewQuickCall(actionId, RangeText(editorHtml, selection),
                                       <<>>, selection)}
                    /\ issued' = [issued EXCEPT !.quick = @ + 1]
  /\ UNCHANGED <<mounted, storage, text, docVersion, analysis, analyzing,
                 chatHistory, chatLoading, lastRange, debouncedText, timerArmed,
                 sinceChange, editorHtml, selection, analysisCalls, chatCalls, gw>>
  /\ UNCHANGED aidVars
  /\ AcEffect

\* The user edits the prompt textarea of the popup.
PromptChange ==
  /\ mounted
  /\ aiPopup.isOpen /\ aiPopup.mode = "prompt"
  /\ \E p \in Prompts :
       /\ p # aiPopup.prompt
       /\ aiPopup' = [aiPopup EXCEPT !.prompt = p]
  /\ event' = Ev("promptChange", NoAlert)
  /\ UNCHANGED <<mounted, storage, text, docVersion, analysis, analyzing,
                 chatHistory, chatLoading, lastRange, debouncedText, timerArmed,
                 sinceChange, editorHtml, selection, analysisCalls, quickCalls,
                 chatCalls, issued, gw>>
  /\ UNCHANGED <<aidVars, acTimer>>

\* Enter in the textarea (the submit button is disabled on a blank prompt,
\* the key handler is not).
handleCustomSubmit ==
  /\ mounted
  /\ aiPopup.isOpen /\ aiPopup.mode = "prompt"
  /\ IF aiPopup.range = NoRange
     THEN UNCHANGED <<aiPopup, quickCalls, issued>>
     ELSE /\ issued.quick < MaxQuickCalls
          /\ aiPopup' = [aiPopup EXCEPT !.mode = "processing"]
          /\ quickCalls' = quickCalls \cup
               {NewQuickCall("Custom", RangeText(editorHtml, aiPopup.range),
                             aiPopup.prompt, aiPopup.range)}
          /\ issued' = [issued EXCEPT !.quick = @ + 1]
  /\ event' = Ev("handleCustomSubmit", NoAlert)
  /\ UNCHANGED <<mounted, storage, text, docVersion, analysis, analyzing,
                 chatHistory, chatLoading, lastRange, debouncedText, timerArmed,
                 sinceChange, editorHtml, selection, analysisCalls, chatCalls, gw>>
  /\ UNCHANGED <<aidVars, acTimer>>

\* setAiPopup(prev => ({ ...prev, mode: 'result', result, range }))
PopupWithResult(prev, result, range) ==
  [prev EXCEPT !.mode = "result", !.result = result, !.range = range]

\* await performQuickAction(...) resolves in runAiAction.  The update is
\* dropped when the EditorPanel that issued the call is no longer mounted.
runAiAction ==
  /\ mounted
  /\ \E c \in quickCalls, o \in TextOutcomes :
       LET r == performQuickAction(c.actionId, c.selectionText, c.customPrompt, o)
           result == IF r.threw THEN QuickError ELSE r.value
       IN
       /\ quickCalls' = quickCalls \ {c}
       /\ aiPopup' = IF c.inst = docVersion
                     THEN PopupWithResult(aiPopup, result, c.range)
                     ELSE aiPopup
       /\ event' = [op |-> "runAiAction", alert |-> NoAlert, id |-> c.id]
  /\ UNCHANGED <<mounted, storage, text, docVersion, analysis, analyzing,
                 chatHistory, chatLoading, lastRange, debouncedText, timerArmed,
                 sinceChange, editorHtml, selection, analysisCalls, chatCalls,
                 issued, gw>>
  /\ UNCHANGED <<aidVars, acTimer>>

\* one pair of surrounding quotes dropped
StripQuotes(content) ==
  IF /\ Len(content) >= 1
     /\ \/ content[1] = "\"" /\ content[Len(content)] = "\""
        \/ content[1] = "'" /\ content[Len(content)] = "'"
  THEN SubSeq(content, 2, Len(content) - 1)
  ELSE content

RECURSIVE NewlinesToBr(_)
NewlinesToBr(content) ==
  IF content = <<>> THEN <<>>
  ELSE (IF Head(content) = "\n" THEN <<"<", "b", "r", ">">> ELSE <<Head(content)>>)
       \o NewlinesToBr(Tail(content))

\* position of the first occurrence of needle at or after i, 0 when none
IndexFrom(hay, needle, i) ==
  IF \E k \in i..Len(hay) : OccursAt(hay, needle, k)
  THEN CHOOSE k \in i..Len(hay) :
         /\ OccursAt(hay, needle, k)
         /\ \A j \in i..(k - 1) : ~OccursAt(hay, needle, j)
  ELSE 0

\* position of the last occurrence of needle, 0 when none
LastIndexOf(hay, needle) ==
  IF Includes(hay, needle)
  THEN CHOOSE k \in 1..Len(hay) :
         /\ OccursAt(hay, needle, k)
         /\ \A j \in (k + 1)..Len(hay) : ~OccursAt(hay, needle, j)
  ELSE 0

\* length of the first line of s
LineEnd(s) ==
  LET n == IndexFrom(s, <<"\n">>, 1) IN IF n = 0 THEN Len(s) ELSE n - 1

Tag(name) == <<"<">> \o name \o <<">">>
EndTag(name) == <<"<", "/">> \o name \o <<">">>

\* content.replace(/^(Here is|Here's) the (kinds) text:?\s*/i, ""), on
\* word tokens
PrefixOpeners == {"Here is", "Here's", "here is", "here's"}
PrefixKinds == {"rewritten", "improved", "edited"}

StripPrefix(content, kinds) ==
  IF /\ Len(content) >= 7
     /\ content[1] \in PrefixOpeners
     /\ content[2] = " " /\ content[3] = "the" /\ content[4] = " "
     /\ content[5] \in kinds
     /\ content[6] = " " /\ content[7] = "text"
  THEN TrimStart(IF Len(content) >= 8 /\ content[8] = ":"
                 THEN SubSeq(content, 9, Len(content))
                 ELSE SubSeq(content, 8, Len(content)))
  ELSE content

\* cleanContent.replace(/^(Certainly|Sure|Okay|Here's|Here is|I've updated|
\* Based on your request),?.*?\n\n/is, ""): a first paragraph that opens
\* with one of the words, up to the first blank line
PreambleOpeners ==
  {"Certainly", "Sure", "Okay", "Here's", "Here is", "I've updated",
   "Based on your request", "certainly", "sure", "okay", "here's", "here is",
   "i've updated", "based on your request"}

StripPreamble(content) ==
  LET k == IndexFrom(content, <<"\n", "\n">>, 2) IN
  IF content # <<>> /\ content[1] \in PreambleOpeners /\ k # 0
  THEN SubSeq(content, k + 2, Len(content))
  ELSE content

\* content.replace(/^marker (.*$)/gm, '<hN>$1</hN>'), marker being the #s
\* and the space
RECURSIVE Headings(_, _, _)
Headings(content, marker, name) ==
  IF content = <<>> THEN <<>>
  ELSE LET n == LineEnd(content)
           line == SubSeq(content, 1, n)
           rest == SubSeq(content, n + 1, Len(content))
           out == IF OccursAt(line, marker, 1)
                  THEN Tag(name) \o SubSeq(line, Len(marker) + 1, n) \o EndTag(name)
                  ELSE line
       IN  IF rest = <<>> THEN out
           ELSE out \o <<"\n">> \o Headings(Tail(rest), marker, name)

AllHeadings(content) ==
  Headings(Headings(Headings(content, <<"#", "#", "#", " ">>, <<"h", "3">>),
                    <<"#", "#", " ">>, <<"h", "2">>),
           <<"#", " ">>, <<"h", "1">>)

\* content.replace(/mark(.*?)mark/g, '<name>$1</name>'): mark is ** or *,
\* and . matches no line feed
RECURSIVE WrapPairs(_, _, _)
WrapPairs(content, mark, name) ==
  IF Len(content) < 2 * Len(mark) THEN content
  ELSE LET j == IF OccursAt(content, mark, 1)
                THEN IndexFrom(content, mark, Len(mark) + 1) ELSE 0
           inner == SubSeq(content, Len(mark) + 1, j - 1)
       IN  IF j # 0 /\ \A k \in 1..Len(inner) : inner[k] # "\n"
           THEN Tag(name) \o inner \o EndTag(name)
                \o WrapPairs(SubSeq(content, j + Len(mark), Len(content)), mark, name)
           ELSE <<Head(content)>> \o WrapPairs(Tail(content), mark, name)

\* **bold** first, then *italic*
Emphasis(content) ==
  WrapPairs(WrapPairs(content, <<"*", "*">>, <<"b">>), <<"*">>, <<"i">>)

\* content.replace(/^\s*-\s+(.*)$/gm, '<li>$1</li>')
RECURSIVE ListItems(_)
ListItems(content) ==
  IF content = <<>> THEN <<>>
  ELSE LET t == TrimStart(content)
           item == Len(t) >= 2 /\ t[1] = "-" /\ IsSpace(t[2])
           u == IF item THEN TrimStart(Tail(t)) ELSE content
           n == LineEnd(u)
           out == IF item
                  THEN Tag(<<"l", "i">>) \o SubSeq(u, 1, n) \o EndTag(<<"l", "i">>)
                  ELSE SubSeq(u, 1, n)
           rest == SubSeq(u, n + 1, Len(u))
       IN  IF rest = <<>> THEN out
           ELSE out \o <<"\n">> \o ListItems(Tail(rest))

\* if (content.includes('<li>')) content.replace(/(<li>.*<\/li>)/s, '<ul>$1</ul>')
WrapList(content) ==
  LET i == IndexOf(content, Tag(<<"l", "i">>))
      j == LastIndexOf(content, EndTag(<<"l", "i">>))
  IN  IF i # 0 /\ j > i
      THEN SubSeq(content, 1, i - 1) \o Tag(<<"u", "l">>)
           \o SubSeq(content, i, j + 4) \o EndTag(<<"u", "l">>)
           \o SubSeq(content, j + 5, Len(content))
      ELSE content

\* handleReplace's cleaning of the popup's result before insertion
cleanResult(result) ==
  NewlinesToBr(WrapList(ListItems(Emphasis(
    StripPrefix(StripQuotes(Trim(result)), PrefixKinds)))))

\* the same in the EditorPanel that tracks the selection: prefix before
\* quotes, "updated" among the prefixes, headings converted
cleanResultTracked(result) ==
  NewlinesToBr(WrapList(ListItems(Emphasis(AllHeadings(
    StripQuotes(StripPrefix(Trim(result), PrefixKinds \cup {"updated"})))))))

\* document.execCommand('insertHTML') with the range selected
InsertAt(html, range, content) ==
  LET from == IF range.from <= Len(html) THEN range.from ELSE Len(html)
      to == IF range.to <= Len(html) THEN range.to ELSE Len(html)
  IN  SubSeq(html, 1, from) \o content \o SubSeq(html, to + 1, Len(html))

\* what handleReplace makes of the view: unchanged without a range or a result
handleReplaceView(popup, html) ==
  IF popup.range = NoRange \/ popup.result = <<>> THEN html
  ELSE InsertAt(html, popup.range, cleanResult(popup.result))

\* "Apply Change" in the popup's result mode: execCommand('insertHTML'), whose
\* input event runs handleInput, then setText(innerHTML) and closePopup().
handleReplace ==
  /\ mounted
  /\ aiPopup.isOpen /\ aiPopup.mode = "result"
  /\ IF aiPopup.range = NoRange \/ aiPopup.result = <<>>
     THEN UNCHANGED <<storage, text, timerArmed, sinceChange, editorHtml,
                      selection, aiPopup, suggestion, isTyping, typingPending>>
     ELSE /\ editorHtml' = handleReplaceView(aiPopup, editorHtml)
          /\ TypingStarts
          /\ selection' = [inst |-> docVersion,
                           from |-> aiPopup.range.from + Len(cleanResult(aiPopup.result)),
                           to |-> aiPopup.range.from + Len(cleanResult(aiPopup.result))]
          /\ SetText(editorHtml')
          /\ aiPopup' = ClosedPopup
  /\ event' = Ev("handleReplace", NoAlert)
  /\ UNCHANGED <<mounted, docVersion, analysis, analyzing, chatHistory,
                 chatLoading, lastRange, debouncedText, analysisCalls, quickCalls,
                 chatCalls, issued, gw>>
  /\ UNCHANGED <<acCalls, download, analysisOf>>
  /\ AcEffect

\* The popup's X button.
closePopup ==
  /\ mounted
  /\ aiPopup.isOpen
  /\ aiPopup' = ClosedPopup
  /\ event' = Ev("closePopup", NoAlert)
  /\ UNCHANGED <<mounted, storage, text, docVersion, analysis, analyzing,
                 chatHistory, chatLoading, lastRange, debouncedText, timerArmed,
                 sinceChange, editorHtml, selection, analysisCalls, quickCalls,
                 chatCalls, issued, gw>>
  /\ UNCHANGED aidVars
  /\ AcEffect


\* One of the setTimeout(() => setIsTyping(false), 500) fires; each
\* handleInput set one, so others may still be pending.
TypingSettles ==
  /\ mounted
  /\ typingPending
  /\ isTyping' = FALSE
  /\ typingPending' \in BOOLEAN
  /\ event' = Ev("typingSettles", NoAlert)
  /\ UNCHANGED <<mounted, storage, text, docVersion, analysis, analyzing,
                 chatHistory, chatLoading, lastRange, debouncedText, timerArmed,
                 sinceChange, editorHtml, selection, aiPopup, analysisCalls,
                 quickCalls, chatCalls, issued, gw>>
  /\ UNCHANGED <<suggestion, acCalls, download, analysisOf>>
  /\ AcEffect

NewAutocompleteCall(plainText) ==
  [id |-> issued.autocomplete + 1, inst |-> docVersion, text |-> plainText]

\* The 1-second idle timeout fires.  A pending isTyping timeout was set no
\* later than this one and is 500 ms shorter, so it has fired before.
AutocompleteFire ==
  /\ mounted
  /\ acTimer # NoTimer
  /\ ~typingPending
  /\ acTimer' = NoTimer
  /\ LET plainText == innerText(editorHtml) IN
     IF ~acTimer.isTyping /\ ~acTimer.isOpen /\ Len(plainText) > AutocompleteIdleMin
     THEN /\ issued.autocomplete < MaxAutocompleteCalls
          /\ acCalls' = acCalls \cup {NewAutocompleteCall(plainText)}
          /\ issued' = [issued EXCEPT !.autocomplete = @ + 1]
          /\ event' = [op |-> "autocompleteFire", alert |-> NoAlert,
                       requested |-> TRUE]
     ELSE /\ UNCHANGED <<acCalls, issued>>
          /\ event' = [op |-> "autocompleteFire", alert |-> NoAlert,
                       requested |-> FALSE]
  /\ UNCHANGED <<mounted, storage, text, docVersion, analysis, analyzing,
                 chatHistory, chatLoading, lastRange, debouncedText, timerArmed,
                 sinceChange, editorHtml, selection, aiPopup, analysisCalls,
                 quickCalls, chatCalls, gw>>
  /\ UNCHANGED <<suggestion, isTyping, typingPending, download, analysisOf>>

\* await getAutocompleteSuggestion(plainText) resolves in the timeout's
\* callback: if (result) setSuggestion(result).  The update is dropped when
\* the EditorPanel that issued the call is no longer mounted.
AutocompleteResolve ==
  /\ mounted
  /\ \E c \in acCalls, o \in TextOutcomes :
       LET r == getAutocompleteSuggestion(c.text, o) IN
       /\ acCalls' = acCalls \ {c}
       /\ suggestion' = IF ~r.threw /\ r.value # <<>> /\ c.inst = docVersion
                        THEN r.value ELSE suggestion
       /\ event' = [op |-> "autocompleteResolved", alert |-> NoAlert,
                    id |-> c.id, text |-> c.text, ret |-> r]
  /\ UNCHANGED <<mounted, storage, text, docVersion, analysis, analyzing,
                 chatHistory, chatLoading, lastRange, debouncedText, timerArmed,
                 sinceChange, editorHtml, selection, aiPopup, analysisCalls,
                 quickCalls, chatCalls, issued, gw>>
  /\ UNCHANGED <<isTyping, typingPending, download, analysisOf, acTimer>>

\* where the view's caret is: the selection, or the end of the view when
\* the view was only focused
Caret == IF selection # NoRange THEN selection ELSE CaretAtEnd(editorHtml)

EscapeHtml_AmpersandLast(content) ==
  ReplaceAll(ReplaceAll(ReplaceAll(content, "<", <<"&", "l", "t", ";">>),
                        ">", <<"&", "g", "t", ";">>),
             "&", <<"&", "a", "m", "p", ";">>)

\* the markup of a text: the reserved characters escaped
EscapeHtml(content) ==
  ReplaceAll(ReplaceAll(ReplaceAll(content, "&", <<"&", "a", "m", "p", ";">>),
                        "<", <<"&", "l", "t", ";">>),
             ">", <<"&", "g", "t", ";">>)

\* Tab in the view while a suggestion is on offer: execCommand('insertText')
\* puts " " + suggestion at the caret, its input event runs handleInput,
\* then setSuggestion('') and setText(innerHTML); the keyup listener hands
\* the new caret to the App.
handleKeyDown ==
  /\ mounted
  /\ suggestion # <<>>
  /\ LET inserted == EscapeHtml(<<" ">> \o suggestion) IN
     /\ editorHtml' = InsertAt(editorHtml, Caret, inserted)
     /\ selection' = [inst |-> docVersion, from |-> Caret.from + Len(inserted),
                      to |-> Caret.from + Len(inserted)]
  /\ lastRange' = selection'
  /\ TypingStarts
  /\ SetText(editorHtml')
  /\ event' = Ev("handleKeyDown", NoAlert)
  /\ UNCHANGED <<mounted, docVersion, analysis, analyzing, chatHistory,
                 chatLoading, debouncedText, aiPopup, analysisCalls,
                 quickCalls, chatCalls, issued, gw>>
  /\ UNCHANGED <<acCalls, download, analysisOf>>
  /\ AcEffect

\* the toolbar's inline formatting commands and their tags; the other
\* commands act as bold does, with tags of their own
FormatCommands == {"bold"}

OpenTag(command) == IF command = "bold" THEN <<"<", "b", ">">> ELSE <<"<", "i", ">">>
CloseTag(command) ==
  IF command = "bold" THEN <<"<", "/", "b", ">">> ELSE <<"<", "/", "i", ">">>

\* a range as the view holds it: its ends lie within the content
Clamp(range, html) ==
  [range EXCEPT !.from = IF @ <= Len(html) THEN @ ELSE Len(html),
                !.to = IF @ <= Len(html) THEN @ ELSE Len(html)]

\* the range is exactly the content of an element of the command's tag
Formatted(html, range, command) ==
  /\ OccursAt(html, OpenTag(command), range.from - 2)
  /\ OccursAt(html, CloseTag(command), range.to + 1)

\* document.execCommand(command) on a selected text: the format is toggled
execCommandView(html, range, command) ==
  IF Formatted(html, range, command)
  THEN SubSeq(html, 1, range.from - 3) \o SubSeq(html, range.from + 1, range.to)
       \o SubSeq(html, range.to + 5, Len(html))
  ELSE SubSeq(html, 1, range.from) \o OpenTag(command)
       \o SubSeq(html, range.from + 1, range.to) \o CloseTag(command)
       \o SubSeq(html, range.to + 1, Len(html))

\* A format button of the toolbar is pressed.  With a caret or without a
\* selection the command changes no markup; setText(innerHTML) runs anyway.
\* The mouseup listener hands the selection to the App.
executeCommand ==
  /\ mounted
  /\ \E command \in FormatCommands :
       IF selection # NoRange /\ Clamp(selection, editorHtml).from < Clamp(selection, editorHtml).to
       THEN LET range == Clamp(selection, editorHtml) IN
            /\ editorHtml' = execCommandView(editorHtml, range, command)
            /\ selection' =
                 IF Formatted(editorHtml, range, command)
                 THEN [range EXCEPT !.from = @ - 3, !.to = @ - 3]
                 ELSE [range EXCEPT !.from = @ + 3, !.to = @ + 3]
            /\ lastRange' = selection'
            /\ TypingStarts
            /\ event' = [op |-> "executeCommand", alert |-> NoAlert,
                         command |-> command]
       ELSE /\ UNCHANGED <<editorHtml, selection, suggestion, isTyping,
                           typingPending>>
            /\ lastRange' = IF selection # NoRange THEN selection ELSE lastRange
            /\ event' = [op |-> "executeCommand", alert |-> NoAlert,
                         command |-> command]
  /\ SetText(editorHtml')
  /\ UNCHANGED <<mounted, docVersion, analysis, analyzing, chatHistory,
                 chatLoading, debouncedText, aiPopup, analysisCalls,
                 quickCalls, chatCalls, issued, gw>>
  /\ UNCHANGED <<acCalls, download, analysisOf>>
  /\ AcEffect

\* ---------------------------------------------------------------- the App
\* the suggestions the Feedback tab renders
ShownSuggestions ==
  IF analysis # Null /\ "suggestions" \in DOMAIN analysis
  THEN analysis.suggestions ELSE <<>>

WithoutIndex_DropAll(list, i) == <<>>

\* analysis.suggestions.filter(suggestion => suggestion !== s), s the i-th
WithoutIndex(list, i) ==
  [k \in 1..(Len(list) - 1) |-> IF k < i THEN list[k] ELSE list[k + 1]]

\* as HasPair, but only a missing replacement is rejected, not an empty one
HasPair_EmptyReplacementAllowed(s) ==
  Truthy(s, "originalText") /\ "replacement" \in DOMAIN s

\* whether handleApplySuggestion reaches its includes() test
HasPair(s) == Truthy(s, "originalText") /\ Truthy(s, "replacement")

\* The i-th suggestion card is clicked.
handleApplySuggestion ==
  /\ mounted
  /\ \E i \in 1..Len(ShownSuggestions) :
       LET s == ShownSuggestions[i] IN
       IF ~HasPair(s)
       THEN /\ event' = [op |-> "handleApplySuggestion", alert |-> NoAlert,
                         index |-> i, applied |-> FALSE]
            /\ UNCHANGED <<storage, text, docVersion, analysis, timerArmed,
                           sinceChange, editorHtml, selection, aiPopup,
                           suggestion, isTyping, typingPending, acTimer>>
       ELSE IF Includes(text, s.originalText)
       THEN /\ docVersion < MaxVersion
            /\ SetText(ReplaceFirst(text, s.originalText, s.replacement))
            /\ docVersion' = docVersion + 1
            /\ analysis' = [analysis EXCEPT !.suggestions = WithoutIndex(@, i)]
            /\ Remount(text')
            /\ event' = [op |-> "handleApplySuggestion", alert |-> NoAlert,
                         index |-> i, applied |-> TRUE]
       ELSE /\ event' = [op |-> "handleApplySuggestion", alert |-> AlertNoMatch,
                         index |-> i, applied |-> FALSE]
            /\ UNCHANGED <<storage, text, docVersion, analysis, timerArmed,
                           sinceChange, editorHtml, selection, aiPopup,
                           suggestion, isTyping, typingPending, acTimer>>
  /\ UNCHANGED <<mounted, analyzing, chatHistory, chatLoading, lastRange,
                 debouncedText, analysisCalls, quickCalls, chatCalls, issued, gw>>
  /\ UNCHANGED <<acCalls, download, analysisOf>>

\* "New" in the header; confirmed is the answer to window.confirm.
handleNewDocument ==
  /\ mounted
  /\ \E confirmed \in BOOLEAN :
       IF confirmed
       THEN /\ docVersion < MaxVersion
            /\ SetText(<<>>)
            /\ analysis' = Null
            /\ chatHistory' = <<>>
            /\ docVersion' = docVersion + 1
            /\ lastRange' = NoRange
            /\ analysisOf' = <<>>
            /\ Remount(<<>>)
            /\ event' = [op |-> "handleNewDocument", alert |-> NoAlert,
                         confirmed |-> TRUE]
       ELSE /\ event' = [op |-> "handleNewDocument", alert |-> NoAlert,
                         confirmed |-> FALSE]
            /\ UNCHANGED <<storage, text, docVersion, analysis, chatHistory,
                           lastRange, timerArmed, sinceChange, editorHtml,
                           selection, aiPopup, suggestion, isTyping,
                           typingPending, acTimer, analysisOf>>
  /\ UNCHANGED <<mounted, analyzing, chatLoading, debouncedText, analysisCalls,
                 quickCalls, chatCalls, issued, gw>>
  /\ UNCHANGED <<acCalls, download>>

\* a ChatMessage (id and timestamp, both read off the clock, are left out)
Message(role, content) == [role |-> role, content |-> content]

handleChatSend_WhileLoading ==
  /\ mounted
  /\ issued.chat < MaxChatSends
  /\ \E msg \in ChatInputs :
       /\ chatHistory' = Append(chatHistory, Message("user", msg))
       /\ chatCalls' = chatCalls \cup
            {[id |-> issued.chat + 1, history |-> chatHistory, msg |-> msg,
              context |-> stripHtml(text)]}
  /\ chatLoading' = TRUE
  /\ issued' = [issued EXCEPT !.chat = @ + 1]
  /\ event' = Ev("handleChatSend", NoAlert)
  /\ UNCHANGED <<mounted, storage, text, docVersion, analysis, analyzing,
                 lastRange, debouncedText, timerArmed, sinceChange, editorHtml,
                 selection, aiPopup, analysisCalls, quickCalls, gw>>
  /\ UNCHANGED <<aidVars, acTimer>>

\* A message is sent from the chat form or a quick prompt; both are disabled
\* while isLoading.
handleChatSend ==
  /\ mounted
  /\ ~chatLoading
  /\ issued.chat < MaxChatSends
  /\ \E msg \in ChatInputs :
       /\ chatHistory' = Append(chatHistory, Message("user", msg))
       /\ chatCalls' = chatCalls \cup
            {[id |-> issued.chat + 1, history |-> chatHistory, msg |-> msg,
              context |-> stripHtml(text)]}
  /\ chatLoading' = TRUE
  /\ issued' = [issued EXCEPT !.chat = @ + 1]
  /\ event' = Ev("handleChatSend", NoAlert)
  /\ UNCHANGED <<mounted, storage, text, docVersion, analysis, analyzing,
                 lastRange, debouncedText, timerArmed, sinceChange, editorHtml,
                 selection, aiPopup, analysisCalls, quickCalls, gw>>
  /\ UNCHANGED <<aidVars, acTimer>>

\* as ChatResolve, but the history is rebuilt from the one the send captured
ChatResolve_StaleHistory ==
  /\ mounted
  /\ \E c \in chatCalls, o \in TextOutcomes :
       LET r == getChatResponse(c.history, c.msg, c.context, o) IN
       /\ chatCalls' = chatCalls \ {c}
       /\ IF r.threw
          THEN UNCHANGED <<chatHistory, chatLoading>>
          ELSE /\ chatHistory' = Append(c.history, Message("model", r.value))
               /\ chatLoading' = FALSE
       /\ event' = [op |-> "chatResolved", alert |-> NoAlert, id |-> c.id,
                    outcome |-> o.kind]
  /\ UNCHANGED <<mounted, storage, text, docVersion, analysis, analyzing,
                 lastRange, debouncedText, timerArmed, sinceChange, editorHtml,
                 selection, aiPopup, analysisCalls, quickCalls, issued, gw>>
  /\ UNCHANGED <<aidVars, acTimer>>

\* await getChatResponse(...) resolves in handleChatSend.  A rejection would
\* leave handleChatSend at the await.
ChatResolve ==
  /\ mounted
  /\ \E c \in chatCalls, o \in TextOutcomes :
       LET r == getChatResponse(c.history, c.msg, c.context, o) IN
       /\ chatCalls' = chatCalls \ {c}
       /\ IF r.threw
          THEN UNCHANGED <<chatHistory, chatLoading>>
          ELSE /\ chatHistory' = Append(chatHistory, Message("model", r.value))
               /\ chatLoading' = FALSE
       /\ event' = [op |-> "chatResolved", alert |-> NoAlert, id |-> c.id,
                    outcome |-> o.kind]
  /\ UNCHANGED <<mounted, storage, text, docVersion, analysis, analyzing,
                 lastRange, debouncedText, timerArmed, sinceChange, editorHtml,
                 selection, aiPopup, analysisCalls, quickCalls, issued, gw>>
  /\ UNCHANGED <<aidVars, acTimer>>

\* files the user can pick besides the one last exported: an empty one, and
\* a text with reserved characters and a line break
UploadFiles == {<<>>, <<"a", "&", "b", "\n", "<", "c", ">">>}

\* handleFileUpload's conversion of the file's text to markup
formatUpload(content) == ReplaceAll(EscapeHtml(content), "\n", Br)

\* A file is picked in the upload dialog and the FileReader has loaded it.
handleFileUpload ==
  /\ mounted
  /\ \E content \in UploadFiles \cup
                     (IF download = NoFile THEN {} ELSE {download.content}) :
       IF content = <<>>
       THEN /\ event' = [op |-> "handleFileUpload", alert |-> NoAlert,
                         content |-> content, loaded |-> FALSE]
            /\ UNCHANGED <<storage, text, docVersion, timerArmed, sinceChange,
                           editorHtml, selection, aiPopup, suggestion, isTyping,
                           typingPending, acTimer>>
       ELSE /\ docVersion < MaxVersion
            /\ SetText(formatUpload(content))
            /\ docVersion' = docVersion + 1
            /\ Remount(text')
            /\ event' = [op |-> "handleFileUpload", alert |-> NoAlert,
                         content |-> content, loaded |-> TRUE]
  /\ UNCHANGED <<mounted, analysis, analyzing, chatHistory, chatLoading,
                 lastRange, debouncedText, analysisCalls, quickCalls, chatCalls,
                 issued, gw>>
  /\ UNCHANGED <<acCalls, download, analysisOf>>

\* "Text (.txt)" in the export menu.
exportAsTxt ==
  /\ mounted
  /\ download' = [name |-> "manuscript.txt", content |-> stripHtml(text)]
  /\ event' = Ev("exportAsTxt", NoAlert)
  /\ UNCHANGED <<mounted, storage, text, docVersion, analysis, analyzing,
                 chatHistory, chatLoading, lastRange, debouncedText, timerArmed,
                 sinceChange, editorHtml, selection, aiPopup, analysisCalls,
                 quickCalls, chatCalls, issued, gw>>
  /\ UNCHANGED <<suggestion, isTyping, typingPending, acCalls, analysisOf, acTimer>>

\* ChatInterface's hasSelection={!!lastRange}: Approve is disabled without it
hasSelection(range) == range # NoRange

\* handleApplyText's cleaning of a response before insertion
cleanContent(content) ==
  NewlinesToBr(WrapList(ListItems(Emphasis(AllHeadings(
    StripQuotes(StripPreamble(Trim(content))))))))

\* Approve under the i-th message of the chat, a model message.  A range of
\* an EditorPanel that is no longer mounted is not in the document:
\* addRange ignores it and insertHTML finds nothing to edit.  The captured
\* range is live: once its content is replaced it is a caret before the
\* inserted content.
handleApplyText ==
  /\ mounted
  /\ \E i \in 1..Len(chatHistory) :
       /\ chatHistory[i].role = "model"
       /\ IF ~hasSelection(lastRange)
          THEN /\ event' = [op |-> "handleApplyText", alert |-> NoteNoSelection,
                            index |-> i]
               /\ UNCHANGED <<storage, text, timerArmed, sinceChange, editorHtml,
                              selection, lastRange, issued, suggestion, isTyping,
                              typingPending>>
          ELSE IF lastRange = NoRange
          THEN /\ event' = [op |-> "handleApplyText", alert |-> AlertSelectLocation,
                            index |-> i]
               /\ UNCHANGED <<storage, text, timerArmed, sinceChange, editorHtml,
                              selection, lastRange, issued, suggestion, isTyping,
                              typingPending>>
          ELSE IF lastRange.inst # docVersion
          THEN /\ selection' = NoRange
               /\ SetText(editorHtml)
               /\ event' = [op |-> "handleApplyText", alert |-> NoAlert, index |-> i]
               /\ UNCHANGED <<editorHtml, lastRange, issued, suggestion, isTyping,
                              typingPending>>
          ELSE LET inserted == cleanContent(chatHistory[i].content)
                   range == Clamp(lastRange, editorHtml)
               IN
               /\ issued.apply < MaxApplies
               /\ issued' = [issued EXCEPT !.apply = @ + 1]
               /\ editorHtml' = InsertAt(editorHtml, range, inserted)
               /\ selection' = [inst |-> docVersion,
                                from |-> range.from + Len(inserted),
                                to |-> range.from + Len(inserted)]
               /\ lastRange' = [range EXCEPT !.to = range.from]
               /\ TypingStarts
               /\ SetText(editorHtml')
               /\ event' = [op |-> "handleApplyText", alert |-> NoAlert, index |-> i]
  /\ UNCHANGED <<mounted, docVersion, analysis, analyzing, chatHistory,
                 chatLoading, debouncedText, aiPopup, analysisCalls,
                 quickCalls, chatCalls, gw>>
  /\ UNCHANGED <<acCalls, download, analysisOf>>
  /\ AcEffect

Next ==
  \/ Mount
  \/ Tick
  \/ DebounceFire
  \/ AnalysisResolve
  \/ handleInput
  \/ Select
  \/ handleQuickAction
  \/ PromptChange
  \/ handleCustomSubmit
  \/ runAiAction
  \/ handleReplace
  \/ closePopup
  \/ handleApplySuggestion
  \/ handleNewDocument
  \/ handleChatSend
  \/ ChatResolve
  \/ TypingSettles
  \/ AutocompleteFire
  \/ AutocompleteResolve
  \/ handleKeyDown
  \/ executeCommand
  \/ handleFileUpload
  \/ exportAsTxt
  \/ handleApplyText

Spec == Init /\ [][Next]_vars


\* The popup and its quick actions, with the operations that act on the
\* editor they live in.
NextPopup ==
  \/ Mount
  \/ Select
  \/ handleQuickAction
  \/ PromptChange
  \/ handleCustomSubmit
  \/ runAiAction
  \/ handleReplace
  \/ closePopup
  \/ handleNewDocument

SpecPopup == Init /\ [][NextPopup]_vars

\* The analysis trigger loop and the suggestions it produces.
NextAnalysis ==
  \/ Mount
  \/ Tick
  \/ DebounceFire
  \/ AnalysisResolve
  \/ handleInput
  \/ handleApplySuggestion
  \/ handleNewDocument

SpecAnalysis == Init /\ [][NextAnalysis]_vars

\* Suggestion cards applied one at a time: the application after the
\* analysis of its stored draft has resolved, the provider having answered
\* with one of a few suggestion lists.
DocTwice == <<"x", " ">> \o Rep("a", 48) \o <<"x">>

sMath == [id |-> "s4", type |-> "improvement", text |-> "Set y as display math",
          originalText |-> <<"x">>, replacement |-> <<"$", "$", "y", "$", "$">>]
sMiss == [id |-> "s5", type |-> "correction", text |-> "Replace z by y",
          originalText |-> <<"z">>, replacement |-> <<"y">>]

SuggestionLists ==
  {<<sFix>>, <<sFix, sNoRep>>, <<sNoRep, sFix, sMiss>>, <<sFix, sFix>>,
   <<sMiss, sFix, sFix, sNoRep>>, <<sMath>>, <<sFix, sMath>>}

InitSuggestions ==
  \E d \in {DocPlain51, DocTwice}, l \in SuggestionLists :
    /\ mounted = TRUE
    /\ storage = <<d>>
    /\ text = d
    /\ docVersion = 0
    /\ analysis = [GoodResult EXCEPT !.suggestions = l]
    /\ analyzing = FALSE
    /\ chatHistory = <<>>
    /\ chatLoading = FALSE
    /\ lastRange = NoRange
    /\ debouncedText = d
    /\ timerArmed = FALSE
    /\ sinceChange = DebounceDelay
    /\ editorHtml = d
    /\ selection = NoRange
    /\ aiPopup = ClosedPopup
    /\ analysisCalls = {}
    /\ quickCalls = {}
    /\ chatCalls = {}
    /\ issued = [analysis |-> 1, quick |-> 0, chat |-> 0, autocomplete |-> 0,
                 apply |-> 0]
    /\ event = Ev("init", NoAlert)
    /\ suggestion = <<>>
    /\ isTyping = FALSE
    /\ typingPending = FALSE
    /\ acTimer = IdleTimer(FALSE, FALSE)
    /\ acCalls = {}
    /\ download = NoFile
    /\ analysisOf = <<stripHtml(d)>>
    /\ gw = [op |-> "none"]

NextSuggestions ==
  \/ handleInput
  \/ Select
  \/ handleApplySuggestion

SpecSuggestions == InitSuggestions /\ [][NextSuggestions]_vars

\* DebounceFire's guard: the timeout is due and the call it may make is
\* within the model's calls
DebounceReady ==
  /\ mounted
  /\ timerArmed
  /\ sinceChange >= DebounceDelay
  /\ (text # debouncedText /\ AnalysisDue(text)) => issued.analysis < MaxAnalysisCalls

\* The analysis loop with what the runtime guarantees: the first render's
\* effects run, time passes while a timeout is pending, every call to the
\* provider resolves, and a due timeout fires.  DebounceFire ends
\* DebounceReady, so its weak fairness is that DebounceReady does not last.
SpecAnalysisLive ==
  /\ Init
  /\ [][NextAnalysis]_vars
  /\ WF_vars(Mount)
  /\ WF_vars(Tick)
  /\ WF_vars(AnalysisResolve)
  /\ []<>~DebounceReady

\* The chat and the operations that act on its history or its context.
NextChat ==
  \/ Mount
  \/ handleInput
  \/ handleChatSend
  \/ ChatResolve
  \/ handleNewDocument

SpecChat == Init /\ [][NextChat]_vars

\* The idle autocomplete of the editor.
NextAutocomplete ==
  \/ Mount
  \/ handleInput
  \/ TypingSettles
  \/ AutocompleteFire
  \/ AutocompleteResolve
  \/ handleKeyDown

SpecAutocomplete == Init /\ [][NextAutocomplete]_vars

\* Export to plain text and upload.
InitFiles == InitWith(StoredDrafts \cup FileDrafts) /\ gw = [op |-> "none"]

NextFiles ==
  \/ Mount
  \/ handleInput
  \/ exportAsTxt
  \/ handleFileUpload

SpecFiles == InitFiles /\ [][NextFiles]_vars

\* The Document replaced from outside the editor (an upload, an applied
\* suggestion, a New Document) after it has been analysed and discussed in
\* the chat.
NextUploads ==
  \/ Mount
  \/ AnalysisResolve
  \/ handleChatSend
  \/ ChatResolve
  \/ handleFileUpload
  \/ handleApplySuggestion
  \/ handleNewDocument

SpecUploads == Init /\ [][NextUploads]_vars

\* Every operation that changes the Document, with the operations that
\* put a result, a response or a suggestion in its reach.  The user of this
\* specification makes a gesture only when no request is pending (Settled)
\* and asks one assistant, once, in a session (NothingAsked): the sessions
\* with the analysis, the popup, the chat and the autocomplete are explored
\* side by side, not in every combination.
Settled == analysisCalls = {} /\ quickCalls = {} /\ chatCalls = {} /\ acCalls = {}

NothingAsked ==
  issued.analysis = 0 /\ issued.quick = 0 /\ issued.chat = 0 /\ issued.autocomplete = 0

NextDocument ==
  \/ Mount
  \/ AnalysisResolve
  \/ runAiAction
  \/ ChatResolve
  \/ AutocompleteResolve
  \/ NothingAsked /\ TypingSettles
  \/ NothingAsked /\ AutocompleteFire
  \/ NothingAsked /\ handleQuickAction
  \/ NothingAsked /\ handleChatSend
  \/ Settled /\ handleInput
  \/ Settled /\ Select
  \/ Settled /\ executeCommand
  \/ Settled /\ handleKeyDown
  \/ Settled /\ handleReplace
  \/ Settled /\ handleApplyText
  \/ Settled /\ handleApplySuggestion
  \/ Settled /\ handleFileUpload
  \/ Settled /\ handleNewDocument

SpecDocument == Init /\ [][NextDocument]_vars


\* ------------------------------------------- the gateway, call by call
TheCatSat == <<"T", "h", "e", " ", "c", "a", "t", " ", "s", "a", "t", ".">>

\* texts handed to analyze and autocomplete, on both sides of their limits
GatewayTexts == {<<>>, Rep("a", 9), <<" ">> \o Rep("a", 9) \o <<" ">>, Rep("a", 10),
                 TheCatSat, Rep("a", 49), Rep("a", 50)}

GatewayActions == QUICK_ACTIONS \cup {"Check Plagiarism Risk", "Translate"}

GatewayCalls ==
  {[op |-> "analyze", text |-> t, outcome |-> o, done |-> FALSE] :
     t \in GatewayTexts, o \in AnalyzeOutcomes}
  \cup {[op |-> "chat", history |-> h, msg |-> m, context |-> t, outcome |-> o,
         done |-> FALSE] :
          h \in {<<>>, <<Message("user", <<"Hi">>), Message("model", ChatNoText)>>},
          m \in ChatInputs, t \in {<<>>, TheCatSat}, o \in TextOutcomes}
  \cup {[op |-> "autocomplete", text |-> t, outcome |-> o, done |-> FALSE] :
          t \in GatewayTexts, o \in TextOutcomes}
  \cup {[op |-> "quickAction", action |-> a, selection |-> <<"x">>, prompt |-> p,
         outcome |-> o, done |-> FALSE] :
          a \in GatewayActions, p \in Prompts, o \in TextOutcomes}

InitGateway == InitApp /\ gw \in GatewayCalls

Done(call, ret) == [call EXCEPT !.done = TRUE] @@ [ret |-> ret]

GwAnalyze ==
  /\ gw.op = "analyze" /\ ~gw.done
  /\ gw' = Done(gw, analyzeText(gw.text, gw.outcome))
  /\ UNCHANGED appVars

GwChat ==
  /\ gw.op = "chat" /\ ~gw.done
  /\ gw' = Done(gw, getChatResponse(gw.history, gw.msg, gw.context, gw.outcome))
  /\ UNCHANGED appVars

GwAutocomplete ==
  /\ gw.op = "autocomplete" /\ ~gw.done
  /\ gw' = Done(gw, getAutocompleteSuggestion(gw.text, gw.outcome))
  /\ UNCHANGED appVars

GwQuickAction ==
  /\ gw.op = "quickAction" /\ ~gw.done
  /\ gw' = Done(gw, performQuickAction(gw.action, gw.selection, gw.prompt, gw.outcome))
  /\ UNCHANGED appVars

NextGateway == GwAnalyze \/ GwChat \/ GwAutocomplete \/ GwQuickAction

SpecGateway == InitGateway /\ [][NextGateway]_vars


\* ------------------------------------- the two apply paths, text by text
\* AI response texts handed to both apply paths: plain, quoted, padded,
\* two lines, markdown of each kind, and the openings that models put before
\* a rewrite
ResponseTexts ==
  {<<"y">>,
   <<"\"", "y", "\"">>,
   <<" ", "y", "\n">>,
   <<"x", "\n", "y">>,
   <<"*", "*", "y", "*", "*">>,
   <<"*", "y", "*">>,
   <<"#", " ", "y">>,
   <<"#", "#", " ", "y">>,
   <<"#", "#", "#", " ", "y">>,
   <<"-", " ", "x", "\n", "-", " ", "y">>,
   <<"Sure", ",", " ", "here you go", ".", "\n", "\n", "y">>,
   <<"Here is", " ", "the", " ", "rewritten", " ", "text", ":", " ", "y">>,
   <<"Here is", " ", "the", " ", "updated", " ", "text", ":", " ", "y">>,
   <<"\"", "Here's", " ", "the", " ", "improved", " ", "text", ":", " ", "y", "\"">>,
   <<"'", "y", "'">>,
   <<"\"", "*", "y", "*", "\"">>,
   <<"x", " ", "*", "*", "y", "*", "*">>,
   <<"*", "*", "x", "\n", "y", "*", "*">>,
   <<"#", "y">>,
   <<"-", " ", "y">>,
   <<"x", " ", "-", " ", "y">>,
   <<"x", "\n", "\n", "y">>,
   <<"Certainly", "!", "\n", "\n", "y">>,
   <<"Okay", ",", " ", "done", ".", "\n", "y">>,
   <<"I've updated", " ", "it", ".", "\n", "\n", "-", " ", "y">>,
   <<"Here's", " ", "the", " ", "edited", " ", "text", "\n", "y">>}

NotApplied == [none |-> TRUE]

InitMarkup ==
  /\ InitApp
  /\ gw \in {[op |-> "insertedMarkup", content |-> t, chat |-> NotApplied,
              popup |-> NotApplied] : t \in ResponseTexts}

\* the markup that handleApplyText inserts for the response text
ApplyTextMarkup ==
  /\ gw.op = "insertedMarkup" /\ gw.chat = NotApplied
  /\ gw' = [gw EXCEPT !.chat = [markup |-> cleanContent(gw.content)]]
  /\ UNCHANGED appVars

\* the markup that handleReplace inserts for it, in each EditorPanel
ReplaceMarkup ==
  /\ gw.op = "insertedMarkup" /\ gw.popup = NotApplied
  /\ gw' = [gw EXCEPT !.popup = [markup |-> cleanResult(gw.content),
                                 tracked |-> cleanResultTracked(gw.content)]]
  /\ UNCHANGED appVars

NextMarkup == ApplyTextMarkup \/ ReplaceMarkup

SpecMarkup == InitMarkup /\ [][NextMarkup]_vars


\* ================================================================ claims
IsPrefix(a, b) == Len(a) <= Len(b) /\ SubSeq(b, 1, Len(a)) = a

PopupDataEmpty ==
  /\ aiPopup.actionId = ""
  /\ aiPopup.prompt = <<>>
  /\ aiPopup.result = <<>>
  /\ aiPopup.range = NoRange

\* C1: while the popup is closed, all of its data (action id, prompt, result,
\* saved range) is empty: a response that resolves after the close does not
\* put a result or a range back.
C1_ClosedPopupHoldsNoData == ~aiPopup.isOpen => PopupDataEmpty

\* the suggestion that the step's handleApplySuggestion was given
ClickedSuggestion == ShownSuggestions[event'.index]

NoMatchClick ==
  /\ event'.op = "handleApplySuggestion"
  /\ "originalText" \in DOMAIN ClickedSuggestion
  /\ ~Includes(text, ClickedSuggestion.originalText)

DocumentKept ==
  /\ text' = text
  /\ docVersion' = docVersion
  /\ analysis' = analysis

\* C2 as claimed: applying a suggestion whose originalText is not a substring
\* of the Document leaves Document, docVersion and suggestions unchanged and
\* raises the validation alert, whatever the suggestion's replacement is.
C2_NoMatchAlwaysAlerts ==
  [][NoMatchClick => (DocumentKept /\ event'.alert = AlertNoMatch)]_vars

\* C2 as amended: applying a suggestion whose originalText is not a substring
\* of the Document leaves Document, docVersion and suggestions unchanged; the
\* validation alert is raised exactly when the suggestion has a non-empty
\* originalText and a non-empty replacement, and nothing is shown otherwise.
C2_NoMatchAlertsForPairs ==
  [][NoMatchClick =>
       /\ DocumentKept
       /\ event'.alert =
            (IF /\ ClickedSuggestion.originalText # <<>>
                /\ "replacement" \in DOMAIN ClickedSuggestion
                /\ ClickedSuggestion.replacement # <<>>
             THEN AlertNoMatch ELSE NoAlert)]_vars

C2_Witness ==
  /\ event.op = "handleApplySuggestion"
  /\ event.alert = AlertNoMatch
  /\ ~Includes(text, ShownSuggestions[event.index].originalText)

\* C3: an analysis call leaves the set of calls in flight only by resolving
\* (no call is cancelled by a newer one), and the resolving response is
\* written to the stored AnalysisResult, so the stored result is always that
\* of the response that resolved last, whichever request was issued last.
C3_LastResolvedWins ==
  [][\A c \in analysisCalls :
       c \notin analysisCalls' =>
         /\ event'.op = "analysisResolved"
         /\ event'.id = c.id
         /\ analysisCalls' = analysisCalls \ {c}
         /\ \E o \in AnalyzeOutcomes :
              /\ event'.ret = analyzeText(c.text, o)
              /\ analysis' = analyzeText(c.text, o).value]_vars

\* two calls overlapped, the second resolved first, and the stored result is
\* the first call's response
C3_Witness ==
  /\ event.op = "analysisResolved"
  /\ event.id = 1
  /\ issued.analysis = 2
  /\ analysisCalls = {}
  /\ analysis = event.ret.value
  /\ analysis = DegradedResult

\* C4 as claimed: every step leaves the messages already in the chat history
\* unchanged as a prefix of the new history.
C4_HistoryOnlyGrows == [][IsPrefix(chatHistory, chatHistory')]_vars

\* C4 as amended: every step other than a confirmed New Document leaves the
\* messages already in the chat history unchanged as a prefix of the new
\* history; a confirmed New Document empties the history.
C4_HistoryGrowsUntilNewDocument ==
  [][\/ IsPrefix(chatHistory, chatHistory')
     \/ /\ event'.op = "handleNewDocument"
        /\ event'.confirmed
        /\ chatHistory' = <<>>]_vars

C4_Witness ==
  /\ event.op = "handleNewDocument"
  /\ event.confirmed
  /\ issued.chat > 0
  /\ chatHistory = <<>>

\* C5: a chat send appends exactly one user message and puts one call in
\* flight; the call's resolution appends exactly one model message, whether
\* the provider answers, answers without text, or fails; nothing else appends.
C5_SendAppendsUserThenModel ==
  [][/\ event'.op = "handleChatSend" =>
          /\ \E m \in ChatInputs : chatHistory' = Append(chatHistory, Message("user", m))
          /\ Cardinality(chatCalls') = Cardinality(chatCalls) + 1
     /\ event'.op = "chatResolved" =>
          /\ Len(chatHistory') = Len(chatHistory) + 1
          /\ IsPrefix(chatHistory, chatHistory')
          /\ chatHistory'[Len(chatHistory')].role = "model"
          /\ chatHistory'[Len(chatHistory')].content # <<>>
          /\ Cardinality(chatCalls') = Cardinality(chatCalls) - 1
     /\ Len(chatHistory') > Len(chatHistory) =>
          event'.op \in {"handleChatSend", "chatResolved"}]_vars

\* the provider failed, and the history is the user message, then the model's
C5_Witness ==
  /\ event.op = "chatResolved"
  /\ event.outcome = "throw"
  /\ Len(chatHistory) = 2
  /\ chatHistory[1].role = "user"
  /\ chatHistory[2] = Message("model", ChatError)

AnalyzeIssued == issued'.analysis > issued.analysis

RestartOnChange == text' # text => (timerArmed' /\ sinceChange' = 0)

\* C6 as claimed: an analyze call is issued only when the Document has been
\* unchanged for DebounceDelay milliseconds and its stripped text is longer
\* than AnalysisMinLen; every Document change restarts the wait.
C6_AnalyzeOnlyAfterQuiescence ==
  [][/\ AnalyzeIssued =>
          /\ timerArmed /\ sinceChange >= DebounceDelay
          /\ text' = text
          /\ Len(stripHtml(text)) > AnalysisMinLen
     /\ RestartOnChange]_vars

\* C6 as amended: an analyze call is issued only for a Document whose stripped
\* text is longer than AnalysisMinLen and, the call made for the stored draft
\* when the application loads apart, only when the Document has been
\* unchanged for DebounceDelay milliseconds; every Document change restarts
\* the wait.
C6_AnalyzeAfterQuiescenceOrLoad ==
  [][/\ AnalyzeIssued =>
          /\ text' = text
          /\ Len(stripHtml(text)) > AnalysisMinLen
          /\ \/ event'.op = "mount"
             \/ timerArmed /\ sinceChange >= DebounceDelay
     /\ RestartOnChange]_vars

C6_Witness ==
  /\ event.op = "debounce"
  /\ event.called
  /\ sinceChange >= DebounceDelay
  /\ \E c \in analysisCalls : c.id = issued.analysis /\ c.text = stripHtml(text)

\* C7: the popup is in processing or result mode only after a quick action
\* was initiated on a selection holding a non-blank text; Apply is offered
\* only with a saved range, and without one it leaves the view as it is.
C7_ProcessingOnlyAfterInitiation ==
  /\ aiPopup.mode \in {"processing", "result"} =>
       /\ issued.quick > 0
       /\ aiPopup.range # NoRange
  /\ \A c \in quickCalls : Trim(c.selectionText) # <<>> /\ c.range # NoRange
  /\ (aiPopup.isOpen /\ aiPopup.mode = "result") => aiPopup.range # NoRange
  /\ aiPopup.range = NoRange => handleReplaceView(aiPopup, editorHtml) = editorHtml

C7_Witness ==
  /\ event.op = "runAiAction"
  /\ aiPopup.isOpen
  /\ aiPopup.mode = "result"
  /\ aiPopup.actionId = "Summarize"

\* C8: a quick action invoked with no selection, an empty one or a blank one
\* raises the validation alert, issues no gateway call, and leaves the popup
\* and the Document unchanged.
C8_NoSelectionNoCall ==
  [][(/\ event'.op = "handleQuickAction"
      /\ \/ selection = NoRange
         \/ Trim(RangeText(editorHtml, selection)) = <<>>) =>
       /\ event'.alert = AlertSelectFirst
       /\ quickCalls' = quickCalls
       /\ issued' = issued
       /\ aiPopup' = aiPopup
       /\ text' = text
       /\ editorHtml' = editorHtml]_vars

\* the alert was raised for a selection that holds only a blank
C8_Witness ==
  /\ event.op = "handleQuickAction"
  /\ event.alert = AlertSelectFirst
  /\ selection # NoRange
  /\ RangeText(editorHtml, selection) = <<" ">>

\* C9: each gateway operation returns a value for every provider outcome and
\* never throws; when the provider call fails, analyze returns the degraded
\* result with its one synthetic suggestion, chat the apology, autocomplete
\* the empty string and quickAction the error string.
C9_GatewayNeverThrows ==
  (gw.op # "none" /\ gw.done) =>
    /\ ~gw.ret.threw
    /\ (gw.ret.called /\ gw.outcome.kind = "throw") =>
         /\ gw.op = "analyze" =>
              gw.ret.value = DegradedResult /\ Len(gw.ret.value.suggestions) = 1
         /\ gw.op = "chat" => gw.ret.value = ChatError
         /\ gw.op = "autocomplete" => gw.ret.value = <<>>
         /\ gw.op = "quickAction" => gw.ret.value = QuickError
    /\ (gw.op = "analyze" /\ gw.ret.called
          /\ gw.outcome \in {[kind |-> "empty"], [kind |-> "text", body |-> NotJson]}) =>
         gw.ret.value = DegradedResult

C9_Witness ==
  /\ gw.op = "analyze"
  /\ gw.done
  /\ gw.outcome.kind = "throw"
  /\ gw.text = TheCatSat
  /\ gw.ret.value = DegradedResult

\* the shape the AnalysisResult interface declares
WellFormedResult(r) ==
  /\ {"clarityScore", "academicToneScore", "documentInsights"} \subseteq DOMAIN r
  /\ r.clarityScore \in 0..100
  /\ r.academicToneScore \in 0..100
  /\ {"estimatedReadingTime", "vocabularyDiversityScore", "complexSentenceCount",
      "transitionWordsCount"} \subseteq DOMAIN r.documentInsights

\* C10: every AnalysisResult that analyze returns has its clarity and tone
\* scores within 0..100 and all four document-insight fields present.
C10_ResultWellFormed ==
  (gw.op = "analyze" /\ gw.done /\ ~gw.ret.threw) => WellFormedResult(gw.ret.value)

\* C11: analyze on an input of fewer than 10 characters returns the fixed
\* zero result (scores 0, no suggestions, zeroed insights) and does not call
\* the provider.
C11_ShortInputZeroResult ==
  (gw.op = "analyze" /\ gw.done /\ Len(gw.text) < 10) =>
    /\ ~gw.ret.threw
    /\ ~gw.ret.called
    /\ gw.ret.value = ZeroResult
    /\ gw.ret.value.clarityScore = 0
    /\ gw.ret.value.academicToneScore = 0
    /\ gw.ret.value.suggestions = <<>>

C11_Witness ==
  /\ gw.op = "analyze"
  /\ gw.done
  /\ gw.text = Rep("a", 9)
  /\ gw.outcome.kind = "text"
  /\ gw.ret.value = ZeroResult

\* C12: autocomplete on an input of fewer than 50 characters returns the
\* empty string without calling the provider, so a request that the idle
\* timer makes for a text of 21..49 characters never reaches the provider
\* and leaves the suggestion as it was; the idle timer makes a request only
\* for a text longer than 20 characters.
C12_ShortTextNeverReachesProvider ==
  [][/\ (event'.op = "autocompleteResolved" /\ Len(event'.text) < 50) =>
          /\ ~event'.ret.threw
          /\ ~event'.ret.called
          /\ event'.ret.value = <<>>
          /\ suggestion' = suggestion
     /\ (event'.op = "autocompleteFire" /\ event'.requested) =>
          Len(innerText(editorHtml)) > 20]_vars

C12_Witness ==
  /\ event.op = "autocompleteResolved"
  /\ Len(event.text) = 49
  /\ ~event.ret.called
  /\ suggestion = <<>>

\* C13: exporting the Document as .txt and uploading that file leaves the
\* Document's stripped text as it was, for every Document.
C13_ExportUploadRoundTrip ==
  [][(/\ event'.op = "handleFileUpload"
      /\ download # NoFile
      /\ download.content = stripHtml(text)
      /\ event'.content = download.content) =>
       stripHtml(text') = stripHtml(text)]_vars

\* C14: after every operation that changes the Document (typing, a
\* formatting command, an accepted autocomplete, a popup apply, a chat apply,
\* an applied suggestion, an upload, a new document) local storage holds the
\* Document; when the application loads, the Document is the stored value,
\* or empty when nothing is stored.
C14_StorageFollowsDocument ==
  /\ mounted => storage = <<text>>
  /\ ~mounted => text = (IF storage = <<>> THEN <<>> ELSE storage[1])

C14_Witness ==
  /\ mounted
  /\ event.op = "handleApplyText"
  /\ event.alert = NoAlert
  /\ issued.apply = 1
  /\ Includes(text, <<"y">>)
  /\ storage = <<text>>

\* C15: applying a chat response while no selection range has been captured
\* surfaces a validation message and leaves the Document, the view and the
\* stored draft as they were; an apply changes the Document or the view only
\* when a captured range exists.
C15_ApplyNeedsCapturedRange ==
  [][event'.op = "handleApplyText" =>
       /\ lastRange = NoRange =>
            /\ event'.alert # NoAlert
            /\ text' = text
            /\ editorHtml' = editorHtml
            /\ storage' = storage
       /\ (text' # text \/ editorHtml' # editorHtml) =>
            /\ lastRange # NoRange
            /\ event'.alert = NoAlert]_vars

C15_Witness ==
  /\ event.op = "handleApplyText"
  /\ event.alert # NoAlert
  /\ lastRange = NoRange
  /\ chatHistory[event.index].role = "model"
  /\ storage = <<text>>

\* the popup's state: closed, or the mode of the open popup
PopupMode(popup) == IF popup.isOpen THEN popup.mode ELSE "closed"

\* C16: the popup modes are entered only in the order prompt, processing,
\* result: result is entered only from processing, processing only from
\* closed or from prompt, and prompt only from closed, under every
\* interleaving of quick-action clicks, closes and responses.
C16_ModesEnteredInOrder ==
  [][PopupMode(aiPopup') # PopupMode(aiPopup) =>
       /\ PopupMode(aiPopup') = "result" => PopupMode(aiPopup) = "processing"
       /\ PopupMode(aiPopup') = "processing" =>
            PopupMode(aiPopup) \in {"closed", "prompt"}
       /\ PopupMode(aiPopup') = "prompt" => PopupMode(aiPopup) = "closed"]_vars

\* C17: whenever a response puts the open popup in result mode, it is the
\* response of the most recently initiated action, the one the popup names
\* and was processing: the response of an earlier action that was closed or
\* superseded never appears in the popup.
C17_ResultIsOfLatestAction ==
  [][\A c \in quickCalls \ quickCalls' :
       (aiPopup'.isOpen /\ aiPopup'.mode = "result") =>
         /\ c.id = issued.quick
         /\ c.actionId = aiPopup.actionId
         /\ aiPopup.mode = "processing"]_vars

\* a step that stores the whole result of an analyze call
ReplacedByAnalyzeResult ==
  /\ event'.op = "analysisResolved"
  /\ ~event'.ret.threw
  /\ analysis' = event'.ret.value

\* after is before without its i-th element
OneRemoved(before, after, i) ==
  /\ i \in 1..Len(before)
  /\ Len(after) = Len(before) - 1
  /\ \A k \in 1..Len(after) : after[k] = (IF k < i THEN before[k] ELSE before[k + 1])

\* C19 as stated: the stored AnalysisResult changes only by being replaced
\* as a whole with the result of an analyze call; no operation modifies only
\* part of it.
C19_OnlyWholesaleReplacement ==
  [][analysis' # analysis => ReplacedByAnalyzeResult]_vars

\* C19, amended: the stored AnalysisResult changes only by being replaced as
\* a whole with the result of an analyze call, by being reset to null by a
\* confirmed New Document, or by a successful suggestion apply removing the
\* applied suggestion from its list and leaving every other field as it was.
C19_ReplacedResetOrSuggestionRemoved ==
  [][analysis' # analysis =>
       \/ ReplacedByAnalyzeResult
       \/ /\ event'.op = "handleNewDocument"
          /\ event'.confirmed
          /\ analysis' = Null
       \/ /\ event'.op = "handleApplySuggestion"
          /\ event'.applied
          /\ analysis # Null
          /\ analysis' = [analysis EXCEPT !.suggestions = analysis'.suggestions]
          /\ OneRemoved(analysis.suggestions, analysis'.suggestions, event'.index)]_vars

C19_Witness ==
  /\ event.op = "handleApplySuggestion"
  /\ event.applied
  /\ event.index = 1
  /\ analysis = [GoodResult EXCEPT !.suggestions = <<sEmptyRep, sNoRep>>]

\* C20: the analyzing flag is true exactly while at least one analysis call
\* is in flight: never false while a call is pending, never true once all
\* calls have resolved.
C20_AnalyzingIffCallInFlight == analyzing <=> analysisCalls # {}

\* a document whose text runAnalysis sends to analyze, and that text
FinalDoc == DocPlain51
FinalText == stripHtml(FinalDoc)

\* C18: if the Document stops changing and every provider call eventually
\* resolves, then eventually the stored AnalysisResult is the result of
\* analyzing the final Document's text (when that text exceeds 50
\* characters), and it stays that result.  Runs that have used up the
\* analysis calls of the model are left out.
C18_EventuallyAnalysisOfFinalText ==
  <>[](text = FinalDoc /\ issued.analysis < MaxAnalysisCalls) =>
    <>[](analysisOf = <<FinalText>>)

\* C21: in every reachable state the chat history alternates user, model,
\* user, model, ... starting with a user message, also when New Document is
\* confirmed while a chat response is pending.
C21_HistoryAlternates ==
  \A i \in 1..Len(chatHistory) :
    chatHistory[i].role = (IF i % 2 = 1 THEN "user" ELSE "model")

\* C28: at most one chat request is in flight at any time: no send is
\* accepted while chatLoading is true, and chatLoading is true from a send
\* until its response has been appended.
C28_OneChatRequestInFlight ==
  /\ Cardinality(chatCalls) <= 1
  /\ chatLoading <=> chatCalls # {}

C28_Witness ==
  /\ chatLoading
  /\ Cardinality(chatCalls) = 1
  /\ issued.chat = 2
  /\ Len(chatHistory) = 3
  /\ chatHistory[2].role = "model"

\* C22: a non-empty autocomplete suggestion is stored only when it was
\* computed from the editor text as it stands: the response of a request
\* issued before a later keystroke is never stored as the suggestion.
C22_SuggestionIsOfCurrentText ==
  [][(/\ event'.op = "autocompleteResolved"
      /\ suggestion' # <<>>
      /\ suggestion' # suggestion) =>
       event'.text = innerText(editorHtml')]_vars

\* C23: for every AI response text, applying it from the chat and applying
\* it from the popup insert the same markup: the same boilerplate stripped,
\* the same surrounding quotes stripped, the same markdown converted.
C23_BothPathsInsertSameMarkup ==
  (gw.op = "insertedMarkup" /\ gw.chat # NotApplied /\ gw.popup # NotApplied) =>
    /\ gw.chat.markup = gw.popup.markup
    /\ gw.chat.markup = gw.popup.tracked

\* the step changed the Document from outside the editor view
ExternalDocumentChange ==
  /\ event'.op \in {"handleApplySuggestion", "handleFileUpload", "handleNewDocument"}
  /\ text' # text

EmptyViews == {<<>>, <<"<", "b", "r", ">">>}

\* C24 as claimed: a change of the Document made outside the editor view
\* overwrites the view's content only when the view is empty ('' or
\* '<br>'); a non-empty view is never overwritten or cleared by it.
C24_NonEmptyViewNeverOverwritten ==
  [][(ExternalDocumentChange /\ editorHtml' # editorHtml) =>
       editorHtml \in EmptyViews]_vars

\* C24 as amended: a change of the Document made outside the editor view
\* overwrites the content of the mounted editor only when that content is
\* empty; each of the operations that change the Document from outside
\* replaces the editor by a fresh one, whose empty view then shows the new
\* Document, whatever the replaced editor was showing.
C24_OnlyFreshOrEmptyViewOverwritten ==
  [][ExternalDocumentChange =>
       /\ (docVersion' = docVersion /\ editorHtml' # editorHtml) =>
            editorHtml \in EmptyViews
       /\ docVersion' # docVersion =>
            editorHtml' = text']_vars

\* a file was uploaded over the stored draft, which the replaced editor was
\* showing and the analysis had covered
C24_Witness ==
  /\ event.op = "handleFileUpload"
  /\ docVersion = 1
  /\ event.loaded
  /\ editorHtml = text
  /\ editorHtml \notin EmptyViews
  /\ analysisOf = <<DocPlain51>>

\* the step is the response of a quick-action call that failed: the fixed
\* message is what runAiAction hands to the popup
FailedQuickCall ==
  /\ event'.op = "runAiAction"
  /\ aiPopup' # aiPopup
  /\ aiPopup'.result = QuickError

\* C25: if the AI call of a quick action fails, the popup goes from
\* processing to result showing 'Error processing request.' and never back
\* to prompt; the popup never remains in processing once the call has
\* resolved or failed.
C25_FailureEndsInErrorResult ==
  [][/\ FailedQuickCall =>
          /\ PopupMode(aiPopup) = "processing"
          /\ PopupMode(aiPopup') = "result"
     /\ PopupMode(aiPopup') = "processing" =>
          \E c \in quickCalls' : c.inst = docVersion']_vars

\* the clicked suggestion has a non-empty originalText that occurs in the
\* Document, and a non-empty replacement
ApplicableClick ==
  /\ event'.op = "handleApplySuggestion"
  /\ "originalText" \in DOMAIN ClickedSuggestion
  /\ ClickedSuggestion.originalText # <<>>
  /\ "replacement" \in DOMAIN ClickedSuggestion
  /\ ClickedSuggestion.replacement # <<>>
  /\ Includes(text, ClickedSuggestion.originalText)

\* doc with the characters of rep in the place of the first occurrence of
\* needle
FirstOccurrenceReplaced(doc, needle, rep) ==
  LET i == CHOOSE k \in 1..Len(doc) :
             /\ SubSeq(doc, k, k + Len(needle) - 1) = needle
             /\ \A j \in 1..(k - 1) : SubSeq(doc, j, j + Len(needle) - 1) # needle
  IN  SubSeq(doc, 1, i - 1) \o rep \o SubSeq(doc, i + Len(needle), Len(doc))

\* C26: when a suggestion with non-empty originalText and replacement is
\* applied and originalText occurs in the Document, the Document becomes the
\* old Document with only the first occurrence of originalText replaced by
\* replacement, docVersion is incremented, exactly that suggestion is
\* removed from the stored suggestion list, and every other suggestion is
\* kept in order.
C26_ApplyReplacesFirstOccurrence ==
  [][ApplicableClick =>
       /\ text' = FirstOccurrenceReplaced(text, ClickedSuggestion.originalText,
                                           ClickedSuggestion.replacement)
       /\ docVersion' = docVersion + 1
       /\ OneRemoved(analysis.suggestions, analysis'.suggestions, event'.index)]_vars

\* the markup that shows one character of a file as text
CharMarkup(c) ==
  CASE c = "&" -> <<"&", "a", "m", "p", ";">>
    [] c = "<" -> <<"&", "l", "t", ";">>
    [] c = ">" -> <<"&", "g", "t", ";">>
    [] c = "\n" -> <<"<", "b", "r", ">">>
    [] OTHER -> <<c>>

RECURSIVE FileMarkup(_)
FileMarkup(content) ==
  IF content = <<>> THEN <<>>
  ELSE CharMarkup(Head(content)) \o FileMarkup(Tail(content))

\* every < of the markup opens a <br>, and every > closes one
OnlyBrTags(html) ==
  \A i \in 1..Len(html) :
    /\ html[i] = "<" => SubSeq(html, i, i + 3) = <<"<", "b", "r", ">">>
    /\ html[i] = ">" => i > 3 /\ SubSeq(html, i - 3, i) = <<"<", "b", "r", ">">>

\* C27: on upload of a file with non-empty content, the Document becomes
\* the content with & < > replaced by their entities (ampersand first) and
\* every newline by <br>, so the Document holds no markup tag other than
\* <br> and shows the file's characters as text; the chat history and the
\* stored AnalysisResult are left unchanged.
C27_UploadEscapesContent ==
  [][(event'.op = "handleFileUpload" /\ event'.content # <<>>) =>
       /\ text' = FileMarkup(event'.content)
       /\ OnlyBrTags(text')
       /\ innerText(text') = event'.content
       /\ chatHistory' = chatHistory
       /\ analysis' = analysis]_vars

C27_Witness ==
  /\ event.op = "handleFileUpload"
  /\ event.content = <<"a", "&", "b", "\n", "<", "c", ">">>
  /\ text = <<"a", "&", "a", "m", "p", ";", "b", "<", "b", "r", ">",
              "&", "l", "t", ";", "c", "&", "g", "t", ";">>
  /\ analysis # Null
  /\ chatHistory # <<>>

\* C29: the provider is never called for a Custom action with a blank
\* prompt: the popup leaves prompt mode for processing only when the prompt
\* holds a character that is not white space, whether it is submitted by the
\* button or by the Enter key.
C29_BlankPromptNeverSubmitted ==
  [][/\ (/\ event'.op = "handleCustomSubmit"
         /\ PopupMode(aiPopup) = "prompt"
         /\ PopupMode(aiPopup') = "processing") =>
          Trim(aiPopup.prompt) # <<>>
     /\ \A c \in quickCalls' \ quickCalls :
          c.actionId = "Custom" => Trim(c.customPrompt) # <<>>]_vars

\* C30: whenever lastRange is not null it is a location in the content of
\* the mounted editor: every operation that replaces the editor (a confirmed
\* New Document, a file upload, an applied suggestion) resets lastRange to
\* null, so that a chat apply never inserts at a detached location.
C30_LastRangeIsOfMountedEditor ==
  lastRange # NoRange => lastRange.inst = docVersion


====
